---- MODULE Spec2Model ----
(***************************************************************************)
(* LibreSD FAT volume engine: the FAT table (libresd_fat.c) and the file   *)
(* layer (libresd_file.c) over a sector-addressed card (libresd_sd.c).     *)
(*                                                                         *)
(* Sectors are byte arrays [0..511 -> 0..255]. The card is the image it    *)
(* had when it was inserted plus the sectors written since.  All I/O       *)
(* succeeds (the card stays initialized and never reports an error).       *)
(***************************************************************************)
EXTENDS Integers, Sequences, FiniteSets, TLC

VARIABLES
    sd,      \* the card: [initialized, image, written]
    fat,     \* the volume (libresd_fat_t)
    file,    \* the one file handle of the caller (libresd_file_t)
    last,    \* the call made last: its name, arguments and results
    nops,    \* number of calls made since the first mount
    caller,  \* the caller: its script, if it follows one, and the largest
             \* position its handle has had since it was opened
    hal      \* the link to the card: [cs, present, write_protect, card, log]

vars == <<sd, fat, file, last, nops, caller, hal>>

(***************************************************************************)
(* Program constants                                                       *)
(***************************************************************************)
LIBRESD_SECTOR_SIZE == 512
FAT_DIRENT_SIZE == 32
DIRENT_FREE == 229
DIRENT_END == 0
FAT_FREE == 0
\* A uint32 value of 2^31 or more is written as the negative number that has
\* the same 32 bits (0xFFFFFFFF is -1); sums and differences then agree with
\* the C arithmetic modulo 2^32, and U32Gt, U32Lt and U32Div below compare
\* and divide as C does.
NO_SECTOR == -1
FREE_UNKNOWN == -1
FAT12_EOC == 4088
FAT16_EOC == 65528
FAT32_EOC == 268435448

LIBRESD_ATTR_VOLUME_ID == 8
LIBRESD_ATTR_DIRECTORY == 16
LIBRESD_ATTR_ARCHIVE == 32
LIBRESD_ATTR_LFN == 15

\* Byte offsets of the 13 UTF-16 code units inside a long-name entry.
LfnUnitOffsets == <<1, 3, 5, 7, 9, 14, 16, 18, 20, 22, 24, 28, 30>>

\* The 8.3 names of the entries "." and ".."
DotName == <<46, 32, 32, 32, 32, 32, 32, 32, 32, 32, 32>>
DotDotName == <<46, 46, 32, 32, 32, 32, 32, 32, 32, 32, 32>>

LIBRESD_FS_NONE == 0
LIBRESD_FS_FAT12 == 1
LIBRESD_FS_FAT16 == 2
LIBRESD_FS_FAT32 == 3

(***************************************************************************)
(* Bounds of the exploration                                               *)
(***************************************************************************)
MaxFatOps == 3
\* Longest cluster-chain walk followed; a longer one is reported as not returning.
MaxWalk == 64

(***************************************************************************)
(* Bytes and little-endian fields                                          *)
(***************************************************************************)
SetMin(S) == CHOOSE m \in S : \A x \in S : m <= x
SetMax(S) == CHOOSE m \in S : \A x \in S : m >= x

\* a > b and a < b on uint32 values
U32Gt(a, b) == IF (a < 0) = (b < 0) THEN a > b ELSE a < 0

U32Lt(a, b) == U32Gt(b, a)

\* a / n on uint32 values, n in 1..255: 2^32 + a is 4 * 2^30 + a
U32Div(a, n) ==
    IF a >= 0 THEN a \div n
    ELSE IF n = 1 THEN a
    ELSE (1073741824 \div n) + (1073741824 \div n) + (1073741824 \div n)
         + ((1073741824 \div n) + ((4 * (1073741824 % n) + a) \div n))

Offsets == 0..(LIBRESD_SECTOR_SIZE - 1)

ZeroSector == [i \in Offsets |-> 0]

READ16(buf, off) == buf[off] + buf[off + 1] * 256

READ32(buf, off) ==
    buf[off] + buf[off + 1] * 256 + buf[off + 2] * 65536 + buf[off + 3] * 16777216

WRITE16(buf, off, v) ==
    [buf EXCEPT ![off] = v % 256, ![off + 1] = (v \div 256) % 256]

WRITE32(buf, off, v) ==
    [buf EXCEPT ![off] = v % 256,
                ![off + 1] = (v \div 256) % 256,
                ![off + 2] = (v \div 65536) % 256,
                ![off + 3] = (v \div 16777216) % 256]

(***************************************************************************)
(* Card images.  A format is the BIOS parameter block of the volume on    *)
(* the card plus the number of clusters that an existing file BIG.BIN      *)
(* already occupies as one chain from the first data cluster on, and the   *)
(* clusters that formatting marked as bad; with tree, the volume also      *)
(* holds files and directories that another system has put on the card.    *)
(* The image of a format is the                                            *)
(* format together with the sectors of the card that are not uniform: the  *)
(* leading sectors of the FAT and the first sector of the root directory.  *)
(***************************************************************************)
FmtFat12 ==
    [fs |-> LIBRESD_FS_FAT12, sectors_per_cluster |-> 1, reserved_sectors |-> 1,
     num_fats |-> 2, root_entry_count |-> 16, sectors_per_fat |-> 3,
     total_sectors |-> 708, root_cluster |-> 0, used |-> 0, bad |-> {},
     bytes_per_sector |-> 512, signed |-> TRUE,
     partition_type |-> 0, partition_start |-> 0, tree |-> FALSE,
     loop |-> FALSE]

FmtFat16 ==
    [fs |-> LIBRESD_FS_FAT16, sectors_per_cluster |-> 1, reserved_sectors |-> 1,
     num_fats |-> 2, root_entry_count |-> 16, sectors_per_fat |-> 16,
     total_sectors |-> 4119, root_cluster |-> 0, used |-> 0, bad |-> {},
     bytes_per_sector |-> 512, signed |-> TRUE,
     partition_type |-> 0, partition_start |-> 0, tree |-> FALSE,
     loop |-> FALSE]

FmtFat32 ==
    [fs |-> LIBRESD_FS_FAT32, sectors_per_cluster |-> 1, reserved_sectors |-> 32,
     num_fats |-> 2, root_entry_count |-> 0, sectors_per_fat |-> 512,
     total_sectors |-> 66581, root_cluster |-> 2, used |-> 0, bad |-> {},
     bytes_per_sector |-> 512, signed |-> TRUE,
     partition_type |-> 0, partition_start |-> 0, tree |-> FALSE,
     loop |-> FALSE]

\* A small FAT12 volume with two-sector clusters.
FmtSmall12 ==
    [fs |-> LIBRESD_FS_FAT12, sectors_per_cluster |-> 2, reserved_sectors |-> 1,
     num_fats |-> 2, root_entry_count |-> 16, sectors_per_fat |-> 1,
     total_sectors |-> 44, root_cluster |-> 0, used |-> 0, bad |-> {},
     bytes_per_sector |-> 512, signed |-> TRUE,
     partition_type |-> 0, partition_start |-> 0, tree |-> FALSE,
     loop |-> FALSE]

\* Layout of an image, derived as mount derives it.
ImgFatStart(img) == img.partition_start + img.reserved_sectors
ImgRootStart(img) == ImgFatStart(img) + img.num_fats * img.sectors_per_fat
ImgRootSectors(img) == ((img.root_entry_count * 32) + 511) \div 512
ImgDataStart(img) == ImgRootStart(img) + ImgRootSectors(img)

\* Value of FAT entry c in the image: reserved entries 0 and 1, the chain of
\* BIG.BIN (clusters 2..used+1), the FAT32 root directory, else free.
ImgEoc(img) ==
    CASE img.fs = LIBRESD_FS_FAT12 -> 4095
      [] img.fs = LIBRESD_FS_FAT16 -> 65535
      [] OTHER -> 268435455

ImgFirstData(img) == IF img.fs = LIBRESD_FS_FAT32 THEN 3 ELSE 2

ImgEntryWith(img, c, eoc, first) ==
    IF c = 0 THEN eoc - 7
    ELSE IF c = 1 THEN eoc
    ELSE IF img.fs = LIBRESD_FS_FAT32 /\ c = img.root_cluster THEN eoc
    ELSE IF c >= first /\ c < first + img.used
         THEN (IF c = first + img.used - 1 THEN (IF img.loop THEN first ELSE eoc)
               ELSE c + 1)
    ELSE IF img.tree /\ c \in {first + img.used, first + img.used + 1} THEN eoc
    ELSE IF c \in img.bad THEN eoc - 8
    ELSE 0

ImgEntry(img, c) == ImgEntryWith(img, c, ImgEoc(img), ImgFirstData(img))

\* Byte r of the three bytes that hold the FAT12 entries e0 and e1, of the
\* two bytes of a FAT16 entry, and of the four bytes of a FAT32 entry.
Fat12Byte(r, e0, e1) ==
    CASE r = 0 -> e0 % 256
      [] r = 1 -> (e0 \div 256) + (e1 % 16) * 16
      [] OTHER -> e1 \div 16

Fat16Byte(r, e) == IF r = 0 THEN e % 256 ELSE e \div 256

Fat32Byte(r, e) ==
    CASE r = 0 -> e % 256
      [] r = 1 -> (e \div 256) % 256
      [] r = 2 -> (e \div 65536) % 256
      [] OTHER -> e \div 16777216

\* Byte b (counted from the start of the FAT) of the image's FAT.
ImgFatByteWith(img, b, eoc, first) ==
    CASE img.fs = LIBRESD_FS_FAT12 ->
            Fat12Byte(b % 3, ImgEntryWith(img, 2 * (b \div 3), eoc, first),
                      ImgEntryWith(img, 2 * (b \div 3) + 1, eoc, first))
      [] img.fs = LIBRESD_FS_FAT16 -> Fat16Byte(b % 2, ImgEntryWith(img, b \div 2, eoc, first))
      [] OTHER -> Fat32Byte(b % 4, ImgEntryWith(img, b \div 4, eoc, first))

ImgFatByte(img, b) == ImgFatByteWith(img, b, ImgEoc(img), ImgFirstData(img))

\* The bytes the card held in its data area when it was inserted: stale
\* bytes of deleted files.
StaleSector == [i \in Offsets |-> 165]

\* First sector of the image's root directory, and its contents: the entry
\* of BIG.BIN when the image holds that file, end-of-directory after it.
ImgRootFirstSector(img) ==
    IF img.fs = LIBRESD_FS_FAT32
    THEN ImgDataStart(img) + (img.root_cluster - 2) * img.sectors_per_cluster
    ELSE ImgRootStart(img)

ImgBigEntry(img) ==
    LET name == <<66, 73, 71, 32, 32, 32, 32, 32, 66, 73, 78>>
        z == [i \in 0..(FAT_DIRENT_SIZE - 1) |->
                 IF i < 11 THEN name[i + 1]
                 ELSE IF i = 11 THEN 32
                 ELSE 0]
    IN  WRITE32(WRITE16(z, 26, ImgFirstData(img)), 28,
                img.used * img.sectors_per_cluster * LIBRESD_SECTOR_SIZE)

(* The tree another system has left on the card: in the root the file      *)
(* "longname.txt" (short name LONGNA~1.TXT, empty) and the directory D;    *)
(* in D the directory E; in E the empty file ".x" (short name X~1).  D    *)
(* and E take the two clusters after BIG.BIN's.                            *)
ImgShortEntry(name, attr, cluster, size) ==
    WRITE32(WRITE16(WRITE16([i \in 0..(FAT_DIRENT_SIZE - 1) |->
                                IF i < 11 THEN name[i + 1]
                                ELSE IF i = 11 THEN attr ELSE 0],
                            20, cluster \div 65536),
                    26, cluster % 65536),
            28, size)

\* The checksum of an 8.3 name that its long-name entries carry.
RECURSIVE LfnChecksum(_, _)
LfnChecksum(name, n) ==
    IF n = 0 THEN 0
    ELSE (((LfnChecksum(name, n - 1) % 2) * 128) + (LfnChecksum(name, n - 1) \div 2)
          + name[n]) % 256

\* Code unit k of a long-name entry that holds all of chars: the name, a
\* terminator, then 0xFFFF.
LfnUnit(chars, k) ==
    IF k <= Len(chars) THEN chars[k] ELSE IF k = Len(chars) + 1 THEN 0 ELSE 65535

LfnUnitAt(chars, i) ==
    IF \E k \in 1..13 : i = LfnUnitOffsets[k]
    THEN LfnUnit(chars, CHOOSE k \in 1..13 : i = LfnUnitOffsets[k]) % 256
    ELSE LfnUnit(chars, CHOOSE k \in 1..13 : i = LfnUnitOffsets[k] + 1) \div 256

\* The single long-name entry (ordinal 1, last) of a name of up to 13 characters.
ImgLfnEntry(chars, short) ==
    [i \in 0..(FAT_DIRENT_SIZE - 1) |->
        CASE i = 0 -> 65
          [] i = 11 -> LIBRESD_ATTR_LFN
          [] i = 13 -> LfnChecksum(short, 11)
          [] i \in {12, 26, 27} -> 0
          [] OTHER -> LfnUnitAt(chars, i)]

DirSectorOf(entries) ==
    [i \in Offsets |->
        IF i \div FAT_DIRENT_SIZE < Len(entries)
        THEN entries[(i \div FAT_DIRENT_SIZE) + 1][i % FAT_DIRENT_SIZE]
        ELSE 0]

\* "LONGNA~1TXT", "longname.txt", "X~1", ".x", "D", "E"
ShortLong == <<76, 79, 78, 71, 78, 65, 126, 49, 84, 88, 84>>
NameLong == <<108, 111, 110, 103, 110, 97, 109, 101, 46, 116, 120, 116>>
ShortDotX == <<88, 126, 49, 32, 32, 32, 32, 32, 32, 32, 32>>
NameDotX == <<46, 120>>
ShortD == <<68, 32, 32, 32, 32, 32, 32, 32, 32, 32, 32>>
ShortE == <<69, 32, 32, 32, 32, 32, 32, 32, 32, 32, 32>>

ImgTreeD(img) == ImgFirstData(img) + img.used
ImgTreeE(img) == ImgFirstData(img) + img.used + 1

ImgRootEntries(img) ==
    (IF img.used = 0 THEN <<>> ELSE <<ImgBigEntry(img)>>)
    \o (IF img.tree
        THEN <<ImgLfnEntry(NameLong, ShortLong),
               ImgShortEntry(ShortLong, LIBRESD_ATTR_ARCHIVE, 0, 0),
               ImgShortEntry(ShortD, LIBRESD_ATTR_DIRECTORY, ImgTreeD(img), 0)>>
        ELSE <<>>)

ImgRootSector(img) == DirSectorOf(ImgRootEntries(img))

\* The first sectors of D and of E.
ImgTreeSectorD(img) ==
    DirSectorOf(<<ImgShortEntry(DotName, LIBRESD_ATTR_DIRECTORY, ImgTreeD(img), 0),
                  ImgShortEntry(DotDotName, LIBRESD_ATTR_DIRECTORY, 0, 0),
                  ImgShortEntry(ShortE, LIBRESD_ATTR_DIRECTORY, ImgTreeE(img), 0)>>)

ImgTreeSectorE(img) ==
    DirSectorOf(<<ImgShortEntry(DotName, LIBRESD_ATTR_DIRECTORY, ImgTreeE(img), 0),
                  ImgShortEntry(DotDotName, LIBRESD_ATTR_DIRECTORY, ImgTreeD(img), 0),
                  ImgLfnEntry(NameDotX, ShortDotX),
                  ImgShortEntry(ShortDotX, LIBRESD_ATTR_ARCHIVE, 0, 0)>>)

ImgClusterSector(img, c) == ImgDataStart(img) + (c - 2) * img.sectors_per_cluster

\* The sectors of the data area that hold the tree; the other sectors of
\* the two clusters are zero.
ImgTreeSectors(img) ==
    IF ~img.tree THEN <<>>
    ELSE [s \in {ImgClusterSector(img, ImgTreeD(img)) + k :
                    k \in 0..(2 * img.sectors_per_cluster - 1)} |->
             IF s = ImgClusterSector(img, ImgTreeD(img)) THEN ImgTreeSectorD(img)
             ELSE IF s = ImgClusterSector(img, ImgTreeE(img)) THEN ImgTreeSectorE(img)
             ELSE ZeroSector]

\* The highest cluster whose entry is not zero in the image, and the last
\* sector of the FAT that holds a nonzero byte.
ImgTopCluster(img) ==
    SetMax({ImgFirstData(img) + img.used + (IF img.tree THEN 2 ELSE 0)} \cup img.bad)

ImgLastFatSector(img) ==
    SetMax({rel \in 0..(img.sectors_per_fat - 1) : rel * 512 <= 4 * (ImgTopCluster(img) + 1)})

\* The sectors that describe the volume.  The first sector of the volume
\* holds the parameter block: the total and the FAT size in their 16-bit
\* fields when they fit (the FAT size only on FAT12 and FAT16), the root
\* cluster at 44 and the name of the FAT type at 54 or 82, which mount does
\* not read.  When the volume is a partition, sector 0 is an MBR whose first
\* entry carries the partition's type and start.
Fmt16Bit(v) == IF v < 65536 THEN v ELSE 0

FmtTypeName(fs) ==
    CASE fs = LIBRESD_FS_FAT12 -> <<70, 65, 84, 49, 50>>
      [] fs = LIBRESD_FS_FAT16 -> <<70, 65, 84, 49, 54>>
      [] OTHER -> <<70, 65, 84, 51, 50>>

BootFields(fmt) ==
    WRITE32(WRITE16(WRITE32(WRITE16(WRITE16(WRITE16(WRITE16(
        [ZeroSector EXCEPT ![13] = fmt.sectors_per_cluster, ![16] = fmt.num_fats],
        11, fmt.bytes_per_sector),
        14, fmt.reserved_sectors),
        17, fmt.root_entry_count),
        19, Fmt16Bit(fmt.total_sectors)),
        32, IF fmt.total_sectors < 65536 THEN 0 ELSE fmt.total_sectors),
        22, IF fmt.fs = LIBRESD_FS_FAT32 THEN 0 ELSE fmt.sectors_per_fat),
        36, IF fmt.fs = LIBRESD_FS_FAT32 THEN fmt.sectors_per_fat ELSE 0)

BootNamed(b, fmt, at, name) ==
    [i \in Offsets |->
        IF i >= at /\ i < at + 5 THEN name[i - at + 1]
        ELSE IF fmt.fs = LIBRESD_FS_FAT32 /\ i >= 44 /\ i < 48
        THEN (IF i = 44 THEN fmt.root_cluster ELSE 0)
        ELSE IF fmt.signed /\ i = 510 THEN 85
        ELSE IF fmt.signed /\ i = 511 THEN 170
        ELSE b[i]]

BootSector(fmt) ==
    BootNamed(BootFields(fmt), fmt, IF fmt.fs = LIBRESD_FS_FAT32 THEN 82 ELSE 54,
              FmtTypeName(fmt.fs))

MbrSector(fmt) ==
    WRITE32([ZeroSector EXCEPT ![446 + 4] = fmt.partition_type, ![510] = 85, ![511] = 170],
            446 + 8, fmt.partition_start)

Image(fmt) ==
    [fmt |-> fmt,
     fat_start |-> ImgFatStart(fmt),
     root_start |-> ImgRootStart(fmt),
     data_start |-> ImgDataStart(fmt),
     root_first |-> ImgRootFirstSector(fmt),
     fat_sectors |-> [rel \in 0..ImgLastFatSector(fmt) |->
                         [i \in Offsets |-> ImgFatByte(fmt, rel * 512 + i)]],
     root_sector |-> ImgRootSector(fmt),
     tree_sectors |-> ImgTreeSectors(fmt)]

ImgFat12 == Image(FmtFat12)
ImgFat16 == Image(FmtFat16)
ImgFat32 == Image(FmtFat32)
ImgSmall12 == Image(FmtSmall12)

\* The FAT32 volume with BIG.BIN on clusters 3..126 and cluster 129 marked
\* bad: the next free clusters are 127, the last entry of FAT sector 0, then
\* 128, the first entry of FAT sector 1, then 130.
ImgFat32Used == Image([FmtFat32 EXCEPT !.used = 124, !.bad = {129}])

\* The FAT16 volume with BIG.BIN on clusters 2..4.
ImgFat16Used == Image([FmtFat16 EXCEPT !.used = 3])

\* The same volume as the first partition, of type 0x06, of a card with an MBR.
ImgPart16 ==
    Image([FmtFat16 EXCEPT !.used = 3, !.partition_type = 6, !.partition_start = 63])

\* The sector the card held at index s when it was inserted: the MBR and
\* the volume's first sector, the FAT copies, zeroed directory sectors, and
\* stale bytes in the data area.
ImgFatSector(img, rel) ==
    IF rel \in DOMAIN img.fat_sectors THEN img.fat_sectors[rel] ELSE ZeroSector

ImgSector(img, s) ==
    IF s = 0 /\ img.fmt.partition_start # 0 THEN MbrSector(img.fmt)
    ELSE IF s = img.fmt.partition_start THEN BootSector(img.fmt)
    ELSE IF s >= img.fat_start /\ s < img.root_start
    THEN ImgFatSector(img, (s - img.fat_start) % img.fmt.sectors_per_fat)
    ELSE IF s = img.root_first THEN img.root_sector
    ELSE IF s >= img.root_start /\ s < img.data_start THEN ZeroSector
    ELSE IF img.fmt.fs = LIBRESD_FS_FAT32
            /\ s >= img.root_first
            /\ s < img.root_first + img.fmt.sectors_per_cluster
    THEN ZeroSector
    ELSE IF s \in DOMAIN img.tree_sectors THEN img.tree_sectors[s]
    ELSE IF s >= img.data_start THEN StaleSector
    ELSE ZeroSector

(***************************************************************************)
(* Card (libresd_sd.c): single-sector read and write                       *)
(***************************************************************************)
libresd_sd_read_sector(card, sector) ==
    IF sector \in DOMAIN card.written THEN card.written[sector]
    ELSE ImgSector(card.image, sector)

libresd_sd_write_sector(card, sector, buffer) ==
    [card EXCEPT !.written = (sector :> buffer) @@ card.written]

(***************************************************************************)
(* Mount (libresd_fat.c): partition table, BIOS parameter block, layout    *)
(* and FAT type.  Of the volume's fields the model keeps those that a      *)
(* later call reads.                                                       *)
(***************************************************************************)
\* memset(fat, 0, sizeof) with fat_buffer_sector = free_clusters = 0xFFFFFFFF
FreshFat ==
    [mounted |-> FALSE,
     fs_type |-> LIBRESD_FS_NONE,
     sectors_per_cluster |-> 0,
     num_fats |-> 0,
     root_entry_count |-> 0,
     sectors_per_fat |-> 0,
     root_cluster |-> 0,
     fat_start_sector |-> 0,
     root_start_sector |-> 0,
     data_start_sector |-> 0,
     cluster_count |-> 0,
     cluster_size |-> 0,
     cwd_cluster |-> 0,
     cwd_path |-> <<>>,
     free_clusters |-> FREE_UNKNOWN,
     last_alloc_cluster |-> 0,
     fat_buffer |-> ZeroSector,
     fat_buffer_sector |-> NO_SECTOR,
     fat_buffer_dirty |-> FALSE]

\* Partition types that mount takes for a FAT partition.
FatPartitionTypes == {1, 4, 6, 11, 12, 14}

HasSignature(buffer) == buffer[510] = 85 /\ buffer[511] = 170

\* Where the volume starts: the first partition of an MBR, or sector 0.
MountPartitionStart(buffer) ==
    IF HasSignature(buffer) /\ buffer[446 + 4] \in FatPartitionTypes
    THEN READ32(buffer, 446 + 8)
    ELSE 0

BpbTotalSectors(buffer) ==
    IF READ16(buffer, 19) = 0 THEN READ32(buffer, 32) ELSE READ16(buffer, 19)

BpbSectorsPerFat(buffer) ==
    IF READ16(buffer, 22) = 0 THEN READ32(buffer, 36) ELSE READ16(buffer, 22)

\* The volume once the fields of the parameter block have been stored.
MountBpb(buffer) ==
    [FreshFat EXCEPT !.sectors_per_cluster = buffer[13],
                     !.num_fats = buffer[16],
                     !.root_entry_count = READ16(buffer, 17),
                     !.sectors_per_fat = BpbSectorsPerFat(buffer)]

\* The FAT type by the cluster count, and what depends on the type.
MountTyped(g, buffer) ==
    IF U32Lt(g.cluster_count, 4085)
    THEN [g EXCEPT !.fs_type = LIBRESD_FS_FAT12, !.cwd_path = <<47>>, !.mounted = TRUE]
    ELSE IF U32Lt(g.cluster_count, 65525)
    THEN [g EXCEPT !.fs_type = LIBRESD_FS_FAT16, !.cwd_path = <<47>>, !.mounted = TRUE]
    ELSE [g EXCEPT !.fs_type = LIBRESD_FS_FAT32,
                   !.root_cluster = READ32(buffer, 44),
                   !.data_start_sector = g.root_start_sector,
                   !.cwd_cluster = READ32(buffer, 44),
                   !.cwd_path = <<47>>,
                   !.mounted = TRUE]

\* data_sectors = total_sectors - data_start_sector + partition_start
MountCounted(g, total_sectors, partition_start) ==
    [g EXCEPT !.cluster_count =
                  U32Div(total_sectors - g.data_start_sector + partition_start,
                         g.sectors_per_cluster),
              !.cluster_size = g.sectors_per_cluster * 512]

\* The partition start is left out of the layout.
MountLayoutFromZero(g, partition_start, reserved_sectors) ==
    [g EXCEPT !.fat_start_sector = reserved_sectors,
              !.root_start_sector = reserved_sectors + g.num_fats * g.sectors_per_fat,
              !.data_start_sector =
                  reserved_sectors + g.num_fats * g.sectors_per_fat
                  + ((g.root_entry_count * 32) + 511) \div 512]

MountLayout(g, partition_start, reserved_sectors) ==
    [g EXCEPT !.fat_start_sector = partition_start + reserved_sectors,
              !.root_start_sector =
                  partition_start + reserved_sectors + g.num_fats * g.sectors_per_fat,
              !.data_start_sector =
                  partition_start + reserved_sectors + g.num_fats * g.sectors_per_fat
                  + ((g.root_entry_count * 32) + 511) \div 512]

\* The parameter block is accepted with any nonzero cluster size.
BpbRejected(buffer) ==
    \/ READ16(buffer, 11) # 512
    \/ buffer[13] = 0
    \/ buffer[16] = 0
    \/ READ16(buffer, 14) = 0

\* buffer holds the volume's first sector
MountParsed(buffer, partition_start) ==
    IF ~HasSignature(buffer) THEN [fat |-> FreshFat, err |-> "NO_FS"]
    ELSE IF BpbRejected(buffer) THEN [fat |-> MountBpb(buffer), err |-> "INVALID_FS"]
    ELSE [fat |-> MountTyped(MountCounted(MountLayout(MountBpb(buffer), partition_start,
                                                      READ16(buffer, 14)),
                                          BpbTotalSectors(buffer), partition_start),
                             buffer),
          err |-> "OK"]

MountAt(card, partition_start) ==
    MountParsed(libresd_sd_read_sector(card, partition_start), partition_start)

\* [fat, err]
libresd_fat_mount(f, card) ==
    IF ~card.initialized THEN [fat |-> f, err |-> "NOT_MOUNTED"]
    ELSE MountAt(card, MountPartitionStart(libresd_sd_read_sector(card, 0)))

\* The card with image img as it is when the caller has initialized it.
CardOf(img) == [initialized |-> TRUE, image |-> img, written |-> <<>>]

\* The volume the caller works on: the card's image, mounted.
Mounted(img) == libresd_fat_mount(FreshFat, CardOf(img)).fat

(***************************************************************************)
(* Cluster operations (libresd_fat.c)                                      *)
(***************************************************************************)
libresd_fat_cluster_to_sector(f, cluster) ==
    IF cluster < 2 THEN 0
    ELSE f.data_start_sector + (cluster - 2) * f.sectors_per_cluster

libresd_fat_is_eoc(f, cluster) ==
    CASE f.fs_type = LIBRESD_FS_FAT12 -> cluster >= FAT12_EOC
      [] f.fs_type = LIBRESD_FS_FAT16 -> cluster >= FAT16_EOC
      [] f.fs_type = LIBRESD_FS_FAT32 -> cluster >= FAT32_EOC
      [] OTHER -> TRUE

\* Byte offset of a cluster's entry from the start of the FAT.
FatOffset(f, cluster) ==
    CASE f.fs_type = LIBRESD_FS_FAT12 -> cluster + (cluster \div 2)
      [] f.fs_type = LIBRESD_FS_FAT16 -> cluster * 2
      [] OTHER -> cluster * 4

\* read_entry's buffer fill: on a miss the sector is read over the buffer,
\* whether or not the buffer is dirty.
ReadEntryLoad(f, card, fat_sector) ==
    IF f.fat_buffer_sector # fat_sector
    THEN [f EXCEPT !.fat_buffer = libresd_sd_read_sector(card, fat_sector),
                   !.fat_buffer_sector = fat_sector]
    ELSE f

\* The FAT12 entry of a cluster from the two bytes that hold it.
Fat12Value(cluster, lo, hi) ==
    IF cluster % 2 = 1 THEN (lo + hi * 256) \div 16 ELSE (lo + hi * 256) % 4096

\* The entry as read with the buffer g holding its sector.
ReadEntryValue(g, card, cluster, fat_sector, offset) ==
    CASE g.fs_type = LIBRESD_FS_FAT12 ->
               Fat12Value(cluster, g.fat_buffer[offset],
                          IF offset = 511
                          THEN libresd_sd_read_sector(card, fat_sector + 1)[0]
                          ELSE g.fat_buffer[offset + 1])
      [] g.fs_type = LIBRESD_FS_FAT16 -> READ16(g.fat_buffer, offset)
      [] OTHER -> READ16(g.fat_buffer, offset) +
                  g.fat_buffer[offset + 2] * 65536 +
                  (g.fat_buffer[offset + 3] % 16) * 16777216

ReadEntryLoaded(g, card, cluster, fat_sector, offset) ==
    [fat |-> g, value |-> ReadEntryValue(g, card, cluster, fat_sector, offset)]

ReadEntryAt(f, card, cluster, fat_sector, offset) ==
    ReadEntryLoaded(ReadEntryLoad(f, card, fat_sector), card, cluster, fat_sector, offset)

\* Returns [fat, value].
libresd_fat_read_entry(f, card, cluster) ==
    ReadEntryAt(f, card, cluster,
                f.fat_start_sector + (FatOffset(f, cluster) \div 512),
                FatOffset(f, cluster) % 512)

NextOrEnd(f, r) ==
    IF libresd_fat_is_eoc(f, r.value) THEN [fat |-> r.fat, value |-> 0] ELSE r

\* Returns [fat, value]: 0 at the end of the chain.
libresd_fat_next_cluster(f, card, cluster) ==
    NextOrEnd(f, libresd_fat_read_entry(f, card, cluster))

\* write_entry's buffer fill: on a miss a dirty buffer is written back first.
\* Returns [fat, sd].
WriteEntryFill(f, card1, fat_sector) ==
    [fat |-> [f EXCEPT !.fat_buffer = libresd_sd_read_sector(card1, fat_sector),
                       !.fat_buffer_sector = fat_sector],
     sd |-> card1]

WriteEntryLoad(f, card, fat_sector) ==
    IF f.fat_buffer_sector # fat_sector
    THEN WriteEntryFill(f,
                        IF f.fat_buffer_dirty
                        THEN libresd_sd_write_sector(card, f.fat_buffer_sector, f.fat_buffer)
                        ELSE card,
                        fat_sector)
    ELSE [fat |-> f, sd |-> card]

\* The entry update in the buffer.
WriteEntryBytes(f, buf, cluster, offset, value) ==
    CASE f.fs_type = LIBRESD_FS_FAT12 ->
           IF cluster % 2 = 1
           THEN LET b0 == [buf EXCEPT ![offset] = (buf[offset] % 16) + (value % 16) * 16]
                IN  IF offset < 511
                    THEN [b0 EXCEPT ![offset + 1] = (value \div 16) % 256]
                    ELSE b0
           ELSE LET b0 == [buf EXCEPT ![offset] = value % 256]
                IN  IF offset < 511
                    THEN [b0 EXCEPT ![offset + 1] =
                              (buf[offset + 1] \div 16) * 16 + ((value \div 256) % 16)]
                    ELSE b0
      [] f.fs_type = LIBRESD_FS_FAT16 -> WRITE16(buf, offset, value)
      [] OTHER ->
           [WRITE32(buf, offset, value % 268435456) EXCEPT
               ![offset + 3] = (buf[offset + 3] \div 16) * 16 + ((value \div 16777216) % 16)]

WriteEntryStore(l, cluster, offset, value) ==
    [fat |-> [l.fat EXCEPT
                !.fat_buffer = WriteEntryBytes(l.fat, @, cluster, offset, value),
                !.fat_buffer_dirty = TRUE],
     sd |-> l.sd]

\* Returns [fat, sd] (the status is always LIBRESD_OK: no I/O fails).
libresd_fat_write_entry(f, card, cluster, value) ==
    WriteEntryStore(WriteEntryLoad(f, card,
                                   f.fat_start_sector + (FatOffset(f, cluster) \div 512)),
                    cluster, FatOffset(f, cluster) % 512, value)

\* The end-of-chain value alloc_cluster and truncate store.
EocMark(f) ==
    CASE f.fs_type = LIBRESD_FS_FAT12 -> 4095
      [] f.fs_type = LIBRESD_FS_FAT16 -> 65535
      [] OTHER -> 268435455

\* alloc_cluster's search loop, entered with the cluster last looked at.
\* The loop reads one entry per iteration; the entries of one FAT sector are
\* taken in one step here, since after the first of them has loaded the
\* sector the others leave the volume as it is.  Returns [fat, cluster, hang]:
\* cluster 0 = disk full; hang = the loop has gone through the whole FAT
\* without meeting a free entry or its start.
RECURSIVE AllocScan(_, _, _, _, _)

\* The clusters from c2 on whose entries lie in the FAT sector of c2's.
AllocScanRun(f, c2) ==
    {c \in c2..(IF c2 + 512 < f.cluster_count + 1 THEN c2 + 512 ELSE f.cluster_count + 1) :
        FatOffset(f, c) \div 512 = FatOffset(f, c2) \div 512}

\* Those of them at which the loop ends: its start, or a free entry.
AllocScanStops(g, card, run, start) ==
    {c \in run : c = start \/ libresd_fat_read_entry(g, card, c).value = FAT_FREE}

AllocScanSector(g, card, start, fuel, run, stops) ==
    IF stops # {}
    THEN [fat |-> g, hang |-> FALSE,
          cluster |-> IF SetMin(stops) = start THEN 0 ELSE SetMin(stops)]
    ELSE IF fuel = 0 THEN [fat |-> g, cluster |-> 0, hang |-> TRUE]
    ELSE AllocScan(g, card, SetMax(run), start, fuel - 1)

AllocScanLoaded(g, card, start, fuel, run) ==
    AllocScanSector(g, card, start, fuel, run, AllocScanStops(g, card, run, start))

AllocScanFrom(f, card, c2, start, fuel) ==
    IF c2 = start THEN [fat |-> f, cluster |-> 0, hang |-> FALSE]
    ELSE AllocScanLoaded(libresd_fat_read_entry(f, card, c2).fat, card, start, fuel,
                         AllocScanRun(f, c2))

AllocScan(f, card, cluster, start, fuel) ==
    AllocScanFrom(f, card,
                  IF cluster + 1 >= f.cluster_count + 2 THEN 2 ELSE cluster + 1,
                  start, fuel)

\* alloc_cluster after the scan: mark the cluster found, link it.
AllocLink(w1, prev_cluster, cluster) ==
    IF prev_cluster >= 2
    THEN libresd_fat_write_entry(w1.fat, w1.sd, prev_cluster, cluster)
    ELSE w1

AllocDone(w2, cluster) ==
    [fat |-> [w2.fat EXCEPT
                !.last_alloc_cluster = cluster,
                !.free_clusters = IF @ # FREE_UNKNOWN THEN @ - 1 ELSE @],
     sd |-> w2.sd, cluster |-> cluster, hang |-> FALSE]

AllocFound(s, card, prev_cluster) ==
    IF s.cluster = 0 THEN [fat |-> s.fat, sd |-> card, cluster |-> 0, hang |-> s.hang]
    ELSE AllocDone(AllocLink(libresd_fat_write_entry(s.fat, card, s.cluster, EocMark(s.fat)),
                             prev_cluster, s.cluster),
                   s.cluster)

\* Returns [fat, sd, cluster, hang].
libresd_fat_alloc_cluster(f, card, prev_cluster) ==
    AllocFound(AllocScan(f, card, f.last_alloc_cluster, f.last_alloc_cluster,
                         f.sectors_per_fat + 1),
               card, prev_cluster)

\* free_chain's loop.  Returns [fat, sd, hang]: hang = still walking after
\* MaxWalk entries.
RECURSIVE FreeChainLoop(_, _, _, _)

FreeCountUp(g) == [g EXCEPT !.free_clusters = IF @ # FREE_UNKNOWN THEN @ + 1 ELSE @]

FreeChainFreed(w, next, fuel) ==
    IF fuel = 0 THEN [fat |-> FreeCountUp(w.fat), sd |-> w.sd, hang |-> TRUE]
    ELSE FreeChainLoop(FreeCountUp(w.fat), w.sd, next, fuel - 1)

FreeChainEntry(r, card, cluster, fuel) ==
    FreeChainFreed(libresd_fat_write_entry(r.fat, card, cluster, FAT_FREE), r.value, fuel)

FreeChainLoop(f, card, cluster, fuel) ==
    IF cluster >= 2 /\ ~libresd_fat_is_eoc(f, cluster)
    THEN FreeChainEntry(libresd_fat_read_entry(f, card, cluster), card, cluster, fuel)
    ELSE [fat |-> f, sd |-> card, hang |-> FALSE]

libresd_fat_free_chain(f, card, cluster) == FreeChainLoop(f, card, cluster, MaxWalk)

\* The writes unmount and sync make for a dirty buffer.  Returns the card.
SyncWrites(f, card) ==
    IF f.fat_buffer_dirty /\ f.fat_buffer_sector # NO_SECTOR
    THEN LET c1 == libresd_sd_write_sector(card, f.fat_buffer_sector, f.fat_buffer)
         IN  IF f.num_fats > 1
             THEN libresd_sd_write_sector(c1, f.fat_buffer_sector + f.sectors_per_fat,
                                          f.fat_buffer)
             ELSE c1
    ELSE card

\* Returns [fat, sd].
libresd_fat_unmount(f, card) ==
    [fat |-> [f EXCEPT !.mounted = FALSE], sd |-> SyncWrites(f, card)]

\* Returns [fat, sd, err].
libresd_fat_sync(f, card) ==
    IF ~f.mounted THEN [fat |-> f, sd |-> card, err |-> "NOT_MOUNTED"]
    ELSE [fat |-> IF f.fat_buffer_dirty /\ f.fat_buffer_sector # NO_SECTOR
                  THEN [f EXCEPT !.fat_buffer_dirty = FALSE] ELSE f,
          sd |-> SyncWrites(f, card), err |-> "OK"]

(***************************************************************************)
(* File handle (libresd_file_t) before any open                            *)
(***************************************************************************)
ClosedFile ==
    [is_open |-> FALSE, mode |-> 0, first_cluster |-> 0, current_cluster |-> 0,
     file_size |-> 0, position |-> 0, cluster_offset |-> 0,
     dir_sector |-> 0, dir_offset |-> 0,
     buffer |-> ZeroSector, buffer_sector |-> 0, buffer_dirty |-> FALSE]

(***************************************************************************)
(* Names (libresd_fat.c).  A C string is a sequence of character codes     *)
(* without its terminating NUL; an 8.3 name is a sequence of 11 bytes.     *)
(***************************************************************************)
LIBRESD_MAX_FILENAME == 128

\* Bit test for a one-bit mask (a power of two): (v & mask) != 0.
HasBit(v, mask) == (v \div mask) % 2 = 1

\* The C string stored in a character array: the characters before the first NUL.
CStr(s) ==
    LET z == {i \in 1..Len(s) : s[i] = 0}
    IN  IF z = {} THEN s ELSE SubSeq(s, 1, SetMin(z) - 1)

ToLowerC(c) == IF c >= 65 /\ c <= 90 THEN c + 32 ELSE c
ToUpperC(c) == IF c >= 97 /\ c <= 122 THEN c - 32 ELSE c
LowerStr(s) == [i \in 1..Len(s) |-> ToLowerC(s[i])]

\* strcasecmp(a, b) == 0
StrCaseEq(a, b) == LowerStr(a) = LowerStr(b)

\* The characters of s before the first space.
UntilSpace(s) ==
    LET sp == {i \in 1..Len(s) : s[i] = 32}
    IN  IF sp = {} THEN s ELSE SubSeq(s, 1, SetMin(sp) - 1)

fat_name_to_str(name) ==
    LET base == [i \in 1..Len(UntilSpace(SubSeq(name, 1, 8))) |->
                    IF name[i] = 5 THEN 229 ELSE name[i]]
        ext == IF name[9] # 32 THEN <<46>> \o UntilSpace(SubSeq(name, 9, 11)) ELSE <<>>
    IN  LowerStr(CStr(base \o ext))

NotSpaceOrDot(c) == c # 32 /\ c # 46

PadSpaces(s, n) == [i \in 1..n |-> IF i <= Len(s) THEN s[i] ELSE 32]

\* The first n characters of s (all of s when it is shorter), in upper case.
UpperPrefix(s, n) == [i \in 1..(IF Len(s) < n THEN Len(s) ELSE n) |-> ToUpperC(s[i])]

\* str from its first character that is neither a space nor a dot.
SkipLeading(str) ==
    LET keep == {i \in 1..Len(str) : NotSpaceOrDot(str[i])}
    IN  IF keep = {} THEN <<>> ELSE SubSeq(str, SetMin(keep), Len(str))

\* Index of the last dot of s1, 0 when it has none.
LastDot(s1) ==
    LET dots == {i \in 1..Len(s1) : s1[i] = 46}
    IN  IF dots = {} THEN 0 ELSE SetMax(dots)

\* A leading 0xE5 is stored as 0x05.
FatNameEscape(raw) == IF raw[1] = 229 THEN [raw EXCEPT ![1] = 5] ELSE raw

FatNameSplit(s1, dot) ==
    FatNameEscape(
        PadSpaces(UpperPrefix(SelectSeq(IF dot = 0 THEN s1 ELSE SubSeq(s1, 1, dot - 1),
                                        NotSpaceOrDot), 8), 8)
        \o PadSpaces(UpperPrefix(IF dot = 0 THEN <<>> ELSE SubSeq(s1, dot + 1, Len(s1)), 3), 3))

FatNameOf(s1) ==
    IF s1 = <<>> THEN [ok |-> FALSE, name |-> PadSpaces(<<>>, 11)]
    ELSE [ok |-> TRUE, name |-> FatNameSplit(s1, LastDot(s1))]

\* [ok, name]: ok is the function's result, name the 11 bytes it leaves.
str_to_fat_name(str) == FatNameOf(SkipLeading(str))

(***************************************************************************)
(* Date and time packing (libresd_types.h) and the clock of the HAL        *)
(***************************************************************************)
LIBRESD_FAT_DATE(y, m, d) == ((y - 1980) % 128) * 512 + (m % 16) * 32 + (d % 32)
LIBRESD_FAT_TIME(h, m, s) == (h % 32) * 2048 + (m % 64) * 32 + ((s \div 2) % 32)
LIBRESD_FAT_YEAR(d) == ((d \div 512) % 128) + 1980
LIBRESD_FAT_MONTH(d) == (d \div 32) % 16
LIBRESD_FAT_DAY(d) == d % 32
LIBRESD_FAT_HOUR(t) == (t \div 2048) % 32
LIBRESD_FAT_MIN(t) == (t \div 32) % 64
\* The five-bit field as stored, in units of two seconds.
FatSecField(t) == t % 32
LIBRESD_FAT_SEC(t) == (t % 32) * 2

\* The board's clock: the application supplies it; it stands still here.
libresd_hal_get_datetime ==
    [year |-> 2024, month |-> 1, day |-> 15, hour |-> 12, minute |-> 30, second |-> 44]

DecodeStamp(date, time) ==
    [year |-> LIBRESD_FAT_YEAR(date), month |-> LIBRESD_FAT_MONTH(date),
     day |-> LIBRESD_FAT_DAY(date), hour |-> LIBRESD_FAT_HOUR(time),
     minute |-> LIBRESD_FAT_MIN(time), second |-> LIBRESD_FAT_SEC(time)]

(***************************************************************************)
(* Directories (libresd_fat.c): iteration and path resolution              *)
(***************************************************************************)
RootCluster(f) == IF f.fs_type = LIBRESD_FS_FAT32 THEN f.root_cluster ELSE 0

\* A directory handle positioned on the first sector of the directory that
\* starts at cluster (0: the fixed root), with that sector loaded.
DirAt(card, cluster, s) ==
    [first_cluster |-> cluster, current_cluster |-> cluster,
     current_sector |-> s, entry_offset |-> 0, is_open |-> TRUE,
     buffer |-> libresd_sd_read_sector(card, s)]

DirStart(f, card, cluster) ==
    DirAt(card, cluster,
          IF cluster = 0 THEN f.root_start_sector
          ELSE libresd_fat_cluster_to_sector(f, cluster))

EntryName(buf, off) == [i \in 1..11 |-> buf[off + i - 1]]

\* What readdir reports for the 8.3 entry at off (the name is set by the caller).
EntryInfo(buf, off, sector, name) ==
    [name |-> name,
     attr |-> buf[off + 11],
     size |-> READ32(buf, off + 28),
     first_cluster |-> READ16(buf, off + 20) * 65536 + READ16(buf, off + 26),
     dir_sector |-> sector,
     dir_offset |-> off,
     created |-> DecodeStamp(READ16(buf, off + 16), READ16(buf, off + 14)),
     modified |-> DecodeStamp(READ16(buf, off + 24), READ16(buf, off + 22))]

\* memset(info, 0, sizeof)
ZeroInfo ==
    [name |-> <<>>, attr |-> 0, size |-> 0, first_cluster |-> 0,
     dir_sector |-> 0, dir_offset |-> 0,
     created |-> [year |-> 0, month |-> 0, day |-> 0, hour |-> 0, minute |-> 0, second |-> 0],
     modified |-> [year |-> 0, month |-> 0, day |-> 0, hour |-> 0, minute |-> 0, second |-> 0]]

\* readdir's step to the next sector once entry_offset has reached 512:
\* into sector s, which is read; into the cluster next_cluster returned.
DirEnterSector(f, card, d0, s) ==
    [fat |-> f, err |-> "OK",
     dir |-> [d0 EXCEPT !.current_sector = s,
                        !.buffer = libresd_sd_read_sector(card, s)]]

DirEnterCluster(n, card, d0) ==
    IF n.value = 0
    THEN [fat |-> n.fat, dir |-> d0, err |-> "EOF"]
    ELSE DirEnterSector(n.fat, card, [d0 EXCEPT !.current_cluster = n.value],
                        libresd_fat_cluster_to_sector(n.fat, n.value))

\* Where the step goes: "end" of the fixed root, the "next" sector, or the
\* next "cluster" of the chain.
DirStepKind(f, d) ==
    IF d.first_cluster = 0
    THEN IF d.current_sector + 1
              >= f.root_start_sector + ((f.root_entry_count * 32) + 511) \div 512
         THEN "end" ELSE "next"
    ELSE IF d.current_sector - libresd_fat_cluster_to_sector(f, d.current_cluster) + 1
              >= f.sectors_per_cluster
         THEN "cluster" ELSE "next"

DirStep(f, card, d, kind) ==
    CASE kind = "end" ->
            [fat |-> f, err |-> "EOF",
             dir |-> [d EXCEPT !.entry_offset = 0, !.current_sector = @ + 1]]
      [] kind = "next" ->
            DirEnterSector(f, card, [d EXCEPT !.entry_offset = 0], d.current_sector + 1)
      [] OTHER ->
            DirEnterCluster(libresd_fat_next_cluster(f, card, d.current_cluster), card,
                            [d EXCEPT !.entry_offset = 0])

DirNextSector(f, card, d) == DirStep(f, card, d, DirStepKind(f, d))

IsStoredLfnUnit(c) == c # 0 /\ c < 128

\* lfn_buffer after the code units `kept` have been stored from index idx on.
\* Stores stop at index LIBRESD_MAX_FILENAME - 1; an ordinal of 0 gives
\* idx = -13, whose stores fall before the array and are dropped.
LfnStoreUnits(lbuf, kept, idx) ==
    [i \in 0..(LIBRESD_MAX_FILENAME - 1) |->
        IF i >= idx /\ i < idx + Len(kept) /\ i < LIBRESD_MAX_FILENAME - 1
        THEN kept[i - idx + 1] ELSE lbuf[i]]

\* The code units of the entry at off that are stored: nonzero and ASCII.
LfnStore(lbuf, buf, off, idx) ==
    LfnStoreUnits(lbuf,
                  SelectSeq([k \in 1..13 |-> READ16(buf, off + LfnUnitOffsets[k])],
                            IsStoredLfnUnit),
                  idx)

ZeroLfnBuffer == [i \in 0..(LIBRESD_MAX_FILENAME - 1) |-> 0]

\* strncpy(info->name, lfn_buffer, LIBRESD_MAX_FILENAME - 1)
LfnName(lbuf) == CStr([i \in 1..(LIBRESD_MAX_FILENAME - 1) |-> lbuf[i - 1]])

\* The long-name entry at off: lfn_buffer after it.
LfnPart(lbuf, buf, off, idx) ==
    IF idx < LIBRESD_MAX_FILENAME - 1 THEN LfnStore(lbuf, buf, off, idx) ELSE lbuf

(* The loop of readdir: one iteration per directory entry looked at. *)
RECURSIVE ReadDirLoop(_, _, _, _, _, _)

\* The iteration once the sector of the entry is in the buffer: g is the
\* volume, d1 the handle already moved past the entry at off of buf.
ReadDirEntry(g, card, d1, buf, off, has_lfn, lbuf, fuel) ==
    IF buf[off] = DIRENT_END
    THEN [fat |-> g, dir |-> d1, err |-> "EOF", info |-> ZeroInfo]
    ELSE IF buf[off] = DIRENT_FREE
    THEN ReadDirLoop(g, card, d1, FALSE, lbuf, fuel - 1)
    ELSE IF buf[off + 11] % 16 = LIBRESD_ATTR_LFN
    THEN ReadDirLoop(g, card, d1, has_lfn \/ HasBit(buf[off], 64),
                     LfnPart(IF HasBit(buf[off], 64) THEN ZeroLfnBuffer ELSE lbuf,
                             buf, off, ((buf[off] % 32) - 1) * 13),
                     fuel - 1)
    ELSE IF HasBit(buf[off + 11], LIBRESD_ATTR_VOLUME_ID)
    THEN ReadDirLoop(g, card, d1, FALSE, lbuf, fuel - 1)
    ELSE [fat |-> g, dir |-> d1, err |-> "OK",
          info |-> EntryInfo(buf, off, d1.current_sector,
                             IF has_lfn /\ lbuf[0] # 0 THEN LfnName(lbuf)
                             ELSE fat_name_to_str(EntryName(buf, off)))]

ReadDirAt(adv, card, has_lfn, lbuf, fuel) ==
    IF adv.err # "OK"
    THEN [fat |-> adv.fat, dir |-> adv.dir, err |-> adv.err, info |-> ZeroInfo]
    ELSE ReadDirEntry(adv.fat, card,
                      [adv.dir EXCEPT !.entry_offset = @ + FAT_DIRENT_SIZE],
                      adv.dir.buffer, adv.dir.entry_offset, has_lfn, lbuf, fuel)

ReadDirLoop(f, card, d, has_lfn, lbuf, fuel) ==
    IF fuel = 0 THEN [fat |-> f, dir |-> d, err |-> "HANG", info |-> ZeroInfo]
    ELSE ReadDirAt(IF d.entry_offset >= 512 THEN DirNextSector(f, card, d)
                   ELSE [fat |-> f, dir |-> d, err |-> "OK"],
                   card, has_lfn, lbuf, fuel)

\* [fat, dir, err, info]
libresd_fat_readdir(f, card, d) ==
    IF ~d.is_open THEN [fat |-> f, dir |-> d, err |-> "INVALID_HANDLE", info |-> ZeroInfo]
    ELSE ReadDirLoop(f, card, d, FALSE, ZeroLfnBuffer, MaxWalk)

(* The search of one directory in fat_resolve_path: readdir until a name   *)
(* matches or readdir fails.  [fat, found, hang, entry]                    *)
RECURSIVE SearchDir(_, _, _, _, _)

SearchDirGot(r, card, component, fuel) ==
    IF r.err # "OK"
    THEN [fat |-> r.fat, found |-> FALSE, hang |-> r.err = "HANG", entry |-> ZeroInfo]
    ELSE IF StrCaseEq(r.info.name, component)
    THEN [fat |-> r.fat, found |-> TRUE, hang |-> FALSE, entry |-> r.info]
    ELSE SearchDir(r.fat, card, r.dir, component, fuel - 1)

SearchDir(f, card, d, component, fuel) ==
    IF fuel = 0 THEN [fat |-> f, found |-> FALSE, hang |-> TRUE, entry |-> ZeroInfo]
    ELSE SearchDirGot(libresd_fat_readdir(f, card, d), card, component, fuel)

\* Index of the first character at or after p that is not a slash.
SkipSlashes(path, p) ==
    LET rest == {i \in p..Len(path) : path[i] # 47}
    IN  IF rest = {} THEN Len(path) + 1 ELSE SetMin(rest)

\* Index just past the path component that starts at p.
ComponentEnd(path, p) ==
    LET stops == {i \in p..Len(path) :
                     path[i] = 47 \/ i - p >= LIBRESD_MAX_FILENAME - 1}
    IN  IF stops = {} THEN Len(path) + 1 ELSE SetMin(stops)

\* The out-parameters of fat_resolve_path before anything is stored in them.
ResolveUnset ==
    [set |-> FALSE, located |-> FALSE, cluster |-> 0, dir_sector |-> 0,
     dir_offset |-> 0, info |-> ZeroInfo]

\* The out-parameters once the last component has been found as entry.
ResolveStored(entry) ==
    [set |-> TRUE, located |-> TRUE, cluster |-> entry.first_cluster,
     dir_sector |-> entry.dir_sector, dir_offset |-> entry.dir_offset, info |-> entry]

(* The component loop of fat_resolve_path.  out carries the out-parameters: *)
(* set tells whether cluster and info were stored, located whether          *)
(* dir_sector and dir_offset were.                                          *)
RECURSIVE ResolveLoop(_, _, _, _, _, _)

\* After the search for a component; p1 is where the next component starts.
ResolveSearched(s, card, path, p1, out) ==
    IF s.hang THEN [fat |-> s.fat, err |-> "HANG"] @@ out
    ELSE IF ~s.found THEN [fat |-> s.fat, err |-> "NOT_FOUND"] @@ out
    ELSE IF p1 <= Len(path) /\ ~HasBit(s.entry.attr, LIBRESD_ATTR_DIRECTORY)
    THEN [fat |-> s.fat, err |-> "NOT_DIR"] @@ out
    ELSE ResolveLoop(s.fat, card, path, p1, s.entry.first_cluster,
                     IF p1 > Len(path) THEN ResolveStored(s.entry) ELSE out)

ResolveComponent(f, card, path, p1, component, current_cluster, out) ==
    IF component = <<46>>
    THEN ResolveLoop(f, card, path, p1, current_cluster, out)
    ELSE IF component = <<46, 46>>
    THEN ResolveLoop(f, card, path, p1, RootCluster(f), out)
    ELSE ResolveSearched(SearchDir(f, card, DirStart(f, card, current_cluster),
                                   component, MaxWalk),
                         card, path, p1, out)

ResolveFrom(f, card, path, p, stop, current_cluster, out) ==
    ResolveComponent(f, card, path, SkipSlashes(path, stop), SubSeq(path, p, stop - 1),
                     current_cluster, out)

ResolveLoop(f, card, path, p, current_cluster, out) ==
    IF p > Len(path) THEN [fat |-> f, err |-> "OK"] @@ out
    ELSE ResolveFrom(f, card, path, p, ComponentEnd(path, p), current_cluster, out)

\* The whole path names the directory the walk starts in.
ResolveStart(f, start) ==
    [fat |-> f, err |-> "OK", set |-> TRUE, located |-> FALSE,
     cluster |-> start, dir_sector |-> 0, dir_offset |-> 0,
     info |-> [ZeroInfo EXCEPT !.attr = LIBRESD_ATTR_DIRECTORY,
                               !.first_cluster = start]]

\* [fat, err, set, located, cluster, dir_sector, dir_offset, info]
fat_resolve_path(f, card, path) ==
    IF Len(path) > 0 /\ path[1] = 47
    THEN IF 2 > Len(path) THEN ResolveStart(f, RootCluster(f))
         ELSE ResolveLoop(f, card, path, 2, RootCluster(f), ResolveUnset)
    ELSE IF 1 > Len(path) THEN ResolveStart(f, f.cwd_cluster)
         ELSE ResolveLoop(f, card, path, 1, f.cwd_cluster, ResolveUnset)

libresd_fat_exists(f, card, path) == fat_resolve_path(f, card, path).err = "OK"

(***************************************************************************)
(* Files (libresd_file.c)                                                  *)
(***************************************************************************)
LIBRESD_READ == 1
LIBRESD_WRITE == 2
LIBRESD_APPEND == 4
LIBRESD_CREATE == 8
LIBRESD_TRUNCATE == 16
LIBRESD_EXCL == 32
LIBRESD_SEEK_SET == 0
LIBRESD_SEEK_CUR == 1
LIBRESD_SEEK_END == 2

\* memset(file, 0, sizeof) followed by buffer_sector = 0xFFFFFFFF
FreshFile == [ClosedFile EXCEPT !.buffer_sector = NO_SECTOR]

\* The card after a whole cluster has been overwritten with zero sectors.
ZeroCluster(f, card, cluster) ==
    LET s == libresd_fat_cluster_to_sector(f, cluster)
    IN  [card EXCEPT !.written =
            [k \in {s + i : i \in 0..(f.sectors_per_cluster - 1)} |-> ZeroSector] @@ @]

\* create_file's search for a free or end entry in the parent directory,
\* extending a cluster directory when its chain ends.  [fat, sd, dir, err]
RECURSIVE FindFreeEntry(_, _, _, _, _, _)
\* the search goes on in sector s of the same cluster or of the root area
FindFreeLoad(f, card, d0, s, parent_cluster, entry_count, fuel) ==
    FindFreeEntry(f, card,
                  [d0 EXCEPT !.current_sector = s,
                             !.buffer = libresd_sd_read_sector(card, s)],
                  parent_cluster, entry_count, fuel - 1)

\* the search goes on in the first sector of cluster next
FindFreeMove(f, card, d0, next, parent_cluster, entry_count, fuel) ==
    FindFreeEntry(f, card,
                  [d0 EXCEPT !.current_cluster = next,
                             !.current_sector = libresd_fat_cluster_to_sector(f, next),
                             !.buffer = libresd_sd_read_sector(card,
                                           libresd_fat_cluster_to_sector(f, next))],
                  parent_cluster, entry_count, fuel - 1)

\* the directory's chain has ended and alloc_cluster has returned a
FindFreeGrown(a, d0, parent_cluster, entry_count, fuel) ==
    IF a.hang THEN [fat |-> a.fat, sd |-> a.sd, dir |-> d0, err |-> "HANG"]
    ELSE IF a.cluster = 0 THEN [fat |-> a.fat, sd |-> a.sd, dir |-> d0, err |-> "FULL"]
    ELSE FindFreeMove(a.fat, ZeroCluster(a.fat, a.sd, a.cluster), d0, a.cluster,
                      parent_cluster, entry_count, fuel)

\* the directory's cluster has ended and next_cluster has returned n
FindFreeNext(n, card, d0, parent_cluster, entry_count, fuel) ==
    IF n.value = 0
    THEN FindFreeGrown(libresd_fat_alloc_cluster(n.fat, card, d0.current_cluster),
                       d0, parent_cluster, entry_count, fuel)
    ELSE FindFreeMove(n.fat, card, d0, n.value, parent_cluster, entry_count, fuel)

FindFreeEntry(f, card, d, parent_cluster, entry_count, fuel) ==
    IF fuel = 0 THEN [fat |-> f, sd |-> card, dir |-> d, err |-> "HANG"]
    ELSE IF d.entry_offset >= 512
    THEN IF parent_cluster = 0
         THEN IF entry_count >= f.root_entry_count
              THEN [fat |-> f, sd |-> card, dir |-> [d EXCEPT !.entry_offset = 0],
                    err |-> "ROOT_FULL"]
              ELSE FindFreeLoad(f, card, [d EXCEPT !.entry_offset = 0],
                                d.current_sector + 1, parent_cluster, entry_count, fuel)
         ELSE IF d.current_sector
                    - libresd_fat_cluster_to_sector(f, d.current_cluster) + 1
                 >= f.sectors_per_cluster
         THEN FindFreeNext(libresd_fat_next_cluster(f, card, d.current_cluster), card,
                           [d EXCEPT !.entry_offset = 0],
                           parent_cluster, entry_count, fuel)
         ELSE FindFreeLoad(f, card, [d EXCEPT !.entry_offset = 0],
                           d.current_sector + 1, parent_cluster, entry_count, fuel)
    ELSE IF d.buffer[d.entry_offset] = DIRENT_FREE \/ d.buffer[d.entry_offset] = DIRENT_END
    THEN [fat |-> f, sd |-> card, dir |-> d, err |-> "OK"]
    ELSE FindFreeEntry(f, card, [d EXCEPT !.entry_offset = @ + FAT_DIRENT_SIZE],
                       parent_cluster, entry_count + 1, fuel - 1)

\* The 32 bytes create_file stores for a new entry.
NewEntryStamped(z, date, time) ==
    WRITE16(WRITE16(WRITE16(WRITE16(WRITE16(z, 16, date), 14, time), 24, date),
                    22, time), 18, date)

NewEntryAt(fat_name, attr, dt) ==
    NewEntryStamped([i \in 0..(FAT_DIRENT_SIZE - 1) |->
                        IF i < 11 THEN fat_name[i + 1]
                        ELSE IF i = 11
                             THEN (IF HasBit(attr, LIBRESD_ATTR_ARCHIVE) THEN attr
                                   ELSE attr + LIBRESD_ATTR_ARCHIVE)
                        ELSE 0],
                    LIBRESD_FAT_DATE(dt.year, dt.month, dt.day),
                    LIBRESD_FAT_TIME(dt.hour, dt.minute, dt.second))

NewEntryBytes(fat_name, attr) == NewEntryAt(fat_name, attr, libresd_hal_get_datetime)

\* create_file's split of the path at its last '/'.
LastSlash(path) ==
    IF \E i \in 1..Len(path) : path[i] = 47
    THEN SetMax({i \in 1..Len(path) : path[i] = 47}) ELSE 0

ParentPathAt(path, last_slash) ==
    IF last_slash = 0 THEN <<>>
    ELSE IF last_slash = 1 THEN <<47>>
    ELSE SubSeq(path, 1, last_slash - 1)

FileNameOf(rest) ==
    IF Len(rest) > LIBRESD_MAX_FILENAME - 1
    THEN SubSeq(rest, 1, LIBRESD_MAX_FILENAME - 1) ELSE rest

FileNameAt(path, last_slash) == FileNameOf(SubSeq(path, last_slash + 1, Len(path)))

CreateFail(e, g, c) == [fat |-> g, sd |-> c, err |-> e, dir_sector |-> 0, dir_offset |-> 0]

\* the free entry has been searched for: store the new entry in it
CreateStore(slot, bytes) ==
    IF slot.err # "OK" THEN CreateFail(slot.err, slot.fat, slot.sd)
    ELSE [fat |-> slot.fat,
          sd |-> libresd_sd_write_sector(slot.sd, slot.dir.current_sector,
                    [i \in Offsets |->
                        IF i >= slot.dir.entry_offset
                           /\ i < slot.dir.entry_offset + FAT_DIRENT_SIZE
                        THEN bytes[i - slot.dir.entry_offset]
                        ELSE slot.dir.buffer[i]]),
          err |-> "OK",
          dir_sector |-> slot.dir.current_sector,
          dir_offset |-> slot.dir.entry_offset]

CreateIn(f, card, parent_cluster, fat_name, attr) ==
    CreateStore(FindFreeEntry(f, card, DirStart(f, card, parent_cluster),
                              parent_cluster, 0, MaxWalk),
                NewEntryBytes(fat_name, attr))

\* the parent path has been resolved
CreateResolved(r, card, fat_name, attr) ==
    IF r.err # "OK" THEN CreateFail(r.err, r.fat, card)
    ELSE IF ~r.set THEN CreateFail("UNDEFINED", r.fat, card)
    ELSE IF ~HasBit(r.info.attr, LIBRESD_ATTR_DIRECTORY)
    THEN CreateFail("NOT_DIR", r.fat, card)
    ELSE CreateIn(r.fat, card, r.cluster, fat_name, attr)

CreateNamed(f, card, parent_path, n, attr) ==
    IF ~n.ok THEN CreateFail("INVALID_NAME", f, card)
    ELSE IF parent_path # <<>>
    THEN CreateResolved(fat_resolve_path(f, card, parent_path), card, n.name, attr)
    ELSE CreateIn(f, card, f.cwd_cluster, n.name, attr)

CreateSplit(f, card, path, last_slash, attr) ==
    CreateNamed(f, card, ParentPathAt(path, last_slash),
                str_to_fat_name(FileNameAt(path, last_slash)), attr)

\* [fat, sd, err, dir_sector, dir_offset]
libresd_fat_create_file(f, card, path, attr) ==
    CreateSplit(f, card, path, LastSlash(path), attr)

\* open's walk to the last cluster for append.  [fat, cluster, pos]
RECURSIVE AppendWalk(_, _, _, _, _)
AppendNext(n, f, card, cluster, pos, file_size) ==
    IF n.value = 0 THEN [fat |-> n.fat, cluster |-> cluster, pos |-> pos]
    ELSE AppendWalk(n.fat, card, n.value, pos + f.cluster_size, file_size)

AppendWalk(f, card, cluster, pos, file_size) ==
    IF pos + f.cluster_size <= file_size
    THEN AppendNext(libresd_fat_next_cluster(f, card, cluster), f, card, cluster, pos,
                    file_size)
    ELSE [fat |-> f, cluster |-> cluster, pos |-> pos]

\* The directory sector with the entry's first cluster and size replaced.
SetEntryClusterSize(buf, off, first_cluster, size) ==
    WRITE32(WRITE16(WRITE16(buf, off + 20, (first_cluster \div 65536) % 65536),
                    off + 26, first_cluster % 65536),
            off + 28, size)

\* open's seek to the end for append, w being where the walk has ended
OpenAppended(w, card, o) ==
    [fat |-> w.fat, sd |-> card, err |-> "OK",
     file |-> [o EXCEPT !.position = o.file_size,
                        !.current_cluster = w.cluster,
                        !.cluster_offset = o.file_size - w.pos]]

OpenPositioned(f, card, o) ==
    IF HasBit(o.mode, LIBRESD_APPEND)
    THEN IF o.first_cluster >= 2
         THEN OpenAppended(AppendWalk(f, card, o.first_cluster, 0, o.file_size), card, o)
         ELSE [fat |-> f, sd |-> card, err |-> "OK",
               file |-> [o EXCEPT !.position = o.file_size]]
    ELSE [fat |-> f, sd |-> card, file |-> o, err |-> "OK"]

\* open's last part: mode, position, and the seek to the end for append.
OpenFinish(f, card, fl, mode) ==
    OpenPositioned(f, card,
                   [fl EXCEPT !.mode = mode, !.position = 0, !.cluster_offset = 0,
                              !.is_open = TRUE])

OpenFail(e, g, c) == [fat |-> g, sd |-> c, file |-> FreshFile, err |-> e]

\* The handle open fills in from the entry the path resolved to.
OpenFound(r) ==
    [FreshFile EXCEPT !.first_cluster = r.info.first_cluster,
                      !.current_cluster = r.info.first_cluster,
                      !.file_size = r.info.size,
                      !.dir_sector = r.dir_sector,
                      !.dir_offset = r.dir_offset]

\* open with TRUNCATE, the chain freed: the entry gets cluster 0 and size 0
OpenCut(fc, r, mode) ==
    IF fc.hang THEN OpenFail("HANG", fc.fat, fc.sd)
    ELSE OpenFinish(fc.fat,
                    libresd_sd_write_sector(fc.sd, r.dir_sector,
                        SetEntryClusterSize(libresd_sd_read_sector(fc.sd, r.dir_sector),
                                            r.dir_offset, 0, 0)),
                    [OpenFound(r) EXCEPT !.first_cluster = 0,
                                         !.current_cluster = 0,
                                         !.file_size = 0],
                    mode)

\* open with CREATE, create_file having returned c
OpenCreated(c, mode) ==
    IF c.err # "OK" THEN OpenFail(c.err, c.fat, c.sd)
    ELSE OpenFinish(c.fat, c.sd,
                    [FreshFile EXCEPT !.dir_sector = c.dir_sector,
                                      !.dir_offset = c.dir_offset],
                    mode)

\* open, the path having been resolved with result r
OpenResolved(r, card, path, mode) ==
    IF r.err = "OK"
    THEN IF ~r.set THEN OpenFail("UNDEFINED", r.fat, card)
         ELSE IF HasBit(r.info.attr, LIBRESD_ATTR_DIRECTORY)
         THEN OpenFail("NOT_FILE", r.fat, card)
         ELSE IF HasBit(mode, LIBRESD_EXCL) /\ HasBit(mode, LIBRESD_CREATE)
         THEN OpenFail("EXISTS", r.fat, card)
         ELSE IF HasBit(mode, LIBRESD_TRUNCATE)
         THEN IF r.info.first_cluster >= 2
              THEN OpenCut(libresd_fat_free_chain(r.fat, card, r.info.first_cluster),
                           r, mode)
              ELSE OpenCut([fat |-> r.fat, sd |-> card, hang |-> FALSE], r, mode)
         ELSE OpenFinish(r.fat, card, OpenFound(r), mode)
    ELSE IF r.err = "NOT_FOUND" /\ HasBit(mode, LIBRESD_CREATE)
    THEN OpenCreated(libresd_fat_create_file(r.fat, card, path, 0), mode)
    ELSE OpenFail(r.err, r.fat, card)

\* [fat, sd, file, err]
libresd_fat_open(f, card, fl, path, mode) ==
    IF ~f.mounted THEN [fat |-> f, sd |-> card, file |-> fl, err |-> "NOT_MOUNTED"]
    ELSE OpenResolved(fat_resolve_path(f, card, path), card, path, mode)

\* close's update of the directory entry: first cluster, size, write stamp
CloseEntry(buf, fl, dt) ==
    WRITE16(WRITE16(SetEntryClusterSize(buf, fl.dir_offset, fl.first_cluster,
                                        fl.file_size),
                    fl.dir_offset + 24, LIBRESD_FAT_DATE(dt.year, dt.month, dt.day)),
            fl.dir_offset + 22, LIBRESD_FAT_TIME(dt.hour, dt.minute, dt.second))

\* close, the data buffer having been written back to the card c1
CloseFlushed(c1, fl) ==
    [sd |-> IF HasBit(fl.mode, LIBRESD_WRITE)
            THEN libresd_sd_write_sector(c1, fl.dir_sector,
                     CloseEntry(libresd_sd_read_sector(c1, fl.dir_sector), fl,
                                libresd_hal_get_datetime))
            ELSE c1,
     file |-> [fl EXCEPT !.is_open = FALSE],
     err |-> "OK"]

\* [sd, file, err]
libresd_fat_close(f, card, fl) ==
    IF ~fl.is_open THEN [sd |-> card, file |-> fl, err |-> "INVALID_HANDLE"]
    ELSE IF fl.buffer_dirty /\ fl.buffer_sector # NO_SECTOR
    THEN CloseFlushed(libresd_sd_write_sector(card, fl.buffer_sector, fl.buffer), fl)
    ELSE CloseFlushed(card, fl)

\* The sector the handle's position is in.
FileSector(f, fl) ==
    libresd_fat_cluster_to_sector(f, fl.current_cluster) + fl.cluster_offset \div 512

\* The card after read or write has written back a dirty data buffer before
\* loading another sector.
BufferEvicted(card, fl) ==
    IF fl.buffer_dirty THEN libresd_sd_write_sector(card, fl.buffer_sector, fl.buffer)
    ELSE card

\* read's loop; data is what has been copied to the caller so far.
\* [fat, sd, file, data]
RECURSIVE ReadLoop(_, _, _, _, _)
\* the cluster has been read to its end and next_cluster has returned n
ReadNext(n, card, fl, size, data) ==
    IF n.value = 0 THEN [fat |-> n.fat, sd |-> card, file |-> fl, data |-> data]
    ELSE ReadLoop(n.fat, card,
                  [fl EXCEPT !.current_cluster = n.value, !.cluster_offset = 0],
                  size, data)

ReadAdvance(f, card, fl, size, data) ==
    IF fl.cluster_offset >= f.cluster_size
    THEN ReadNext(libresd_fat_next_cluster(f, card, fl.current_cluster), card, fl,
                  size, data)
    ELSE ReadLoop(f, card, fl, size, data)

\* to_read bytes are copied from the buffer
ReadTake(f, card, fl, size, data, to_read) ==
    ReadAdvance(f, card,
                [fl EXCEPT !.position = @ + to_read, !.cluster_offset = @ + to_read],
                size - to_read,
                data \o [i \in 1..to_read |-> fl.buffer[(fl.cluster_offset % 512) + i - 1]])

ReadCopy(f, card, fl, size, data) ==
    ReadTake(f, card, fl, size, data,
             IF U32Gt(512 - (fl.cluster_offset % 512), size) THEN size
             ELSE 512 - (fl.cluster_offset % 512))

\* the buffer holds another sector: it is replaced by the one on the card c1
ReadLoad(f, c1, fl, size, data, sector) ==
    ReadCopy(f, c1,
             [fl EXCEPT !.buffer = libresd_sd_read_sector(c1, sector),
                        !.buffer_sector = sector,
                        !.buffer_dirty = FALSE],
             size, data)

ReadAt(f, card, fl, size, data, sector) ==
    IF fl.buffer_sector # sector
    THEN ReadLoad(f, BufferEvicted(card, fl), fl, size, data, sector)
    ELSE ReadCopy(f, card, fl, size, data)

ReadLoop(f, card, fl, size, data) ==
    IF size = 0 \/ fl.current_cluster < 2
    THEN [fat |-> f, sd |-> card, file |-> fl, data |-> data]
    ELSE ReadAt(f, card, fl, size, data, FileSector(f, fl))

\* read's limit on the request: no more than what is left of the file.
ReadLimitUnclamped(fl, size) == size

ReadLimit(fl, size) ==
    IF U32Gt(fl.position + size, fl.file_size) THEN fl.file_size - fl.position ELSE size

ReadDone(r) == r @@ [err |-> IF Len(r.data) > 0 THEN "OK" ELSE "EOF"]

\* [fat, sd, file, err, data]; bytes_read is Len(data).
libresd_fat_read(f, card, fl, size) ==
    IF ~fl.is_open
    THEN [fat |-> f, sd |-> card, file |-> fl, err |-> "INVALID_HANDLE", data |-> <<>>]
    ELSE IF ~HasBit(fl.mode, LIBRESD_READ)
    THEN [fat |-> f, sd |-> card, file |-> fl, err |-> "READ_ONLY", data |-> <<>>]
    ELSE IF fl.position >= fl.file_size
    THEN [fat |-> f, sd |-> card, file |-> fl, err |-> "EOF", data |-> <<>>]
    ELSE ReadDone(ReadLoop(f, card, fl, ReadLimit(fl, size), <<>>))

\* write's loop; src is the caller's buffer, done the bytes taken from it.
\* [fat, sd, file, total_written, hang]
RECURSIVE WriteLoop(_, _, _, _, _)
\* to_write bytes are copied into the buffer, which held loaded before
WriteTake(f, card, fl, loaded, src, done, sector, to_write) ==
    WriteLoop(f, card,
              [fl EXCEPT !.buffer =
                            [i \in Offsets |->
                                IF i >= fl.cluster_offset % 512
                                   /\ i < (fl.cluster_offset % 512) + to_write
                                THEN src[done + i - (fl.cluster_offset % 512) + 1]
                                ELSE loaded[i]],
                         !.buffer_sector = sector,
                         !.buffer_dirty = TRUE,
                         !.position = @ + to_write,
                         !.cluster_offset = @ + to_write,
                         !.file_size = IF fl.position + to_write > @
                                       THEN fl.position + to_write ELSE @],
              src, done + to_write)

WriteCopy(f, card, fl, loaded, src, done, sector) ==
    WriteTake(f, card, fl, loaded, src, done, sector,
              IF 512 - (fl.cluster_offset % 512) > Len(src) - done THEN Len(src) - done
              ELSE 512 - (fl.cluster_offset % 512))

\* the buffer holds another sector: the card's sector is loaded unless the
\* write replaces all of it
WriteLoad(f, c1, fl, src, done, sector) ==
    WriteCopy(f, c1, fl,
              IF fl.cluster_offset % 512 # 0 \/ Len(src) - done < 512
              THEN libresd_sd_read_sector(c1, sector)
              ELSE fl.buffer,
              src, done, sector)

WriteAt(f, card, fl, src, done, sector) ==
    IF fl.buffer_sector # sector
    THEN WriteLoad(f, BufferEvicted(card, fl), fl, src, done, sector)
    ELSE WriteCopy(f, card, fl, fl.buffer, src, done, sector)

WriteSector(f, card, fl, src, done) ==
    WriteAt(f, card, fl, src, done, FileSector(f, fl))

\* the chain has ended at a cluster boundary and alloc_cluster has returned b
WriteLinked(b, fl, src, done) ==
    IF b.cluster = 0
    THEN [fat |-> b.fat, sd |-> b.sd, file |-> fl, total_written |-> done,
          hang |-> b.hang]
    ELSE WriteSector(b.fat, b.sd,
                     [fl EXCEPT !.current_cluster = b.cluster, !.cluster_offset = 0],
                     src, done)

\* the position is at a cluster boundary and next_cluster has returned n
WriteNext(n, card, fl, src, done) ==
    IF n.value = 0
    THEN WriteLinked(libresd_fat_alloc_cluster(n.fat, card, fl.current_cluster),
                     fl, src, done)
    ELSE WriteSector(n.fat, card,
                     [fl EXCEPT !.current_cluster = n.value, !.cluster_offset = 0],
                     src, done)

\* move to, or allocate, the next cluster at a cluster boundary
WriteBoundary(f, card, fl, src, done) ==
    IF fl.cluster_offset >= f.cluster_size
    THEN WriteNext(libresd_fat_next_cluster(f, card, fl.current_cluster), card, fl,
                   src, done)
    ELSE WriteSector(f, card, fl, src, done)

\* the handle had no cluster and alloc_cluster has returned a
WriteFirst(a, fl, src, done) ==
    IF a.cluster = 0
    THEN [fat |-> a.fat, sd |-> a.sd, file |-> fl, total_written |-> done,
          hang |-> a.hang]
    ELSE WriteBoundary(a.fat, ZeroCluster(a.fat, a.sd, a.cluster),
                       [fl EXCEPT !.first_cluster = IF @ < 2 THEN a.cluster ELSE @,
                                  !.current_cluster = a.cluster,
                                  !.cluster_offset = 0,
                                  !.buffer = ZeroSector],
                       src, done)

WriteLoop(f, card, fl, src, done) ==
    IF Len(src) - done = 0
    THEN [fat |-> f, sd |-> card, file |-> fl, total_written |-> done, hang |-> FALSE]
    ELSE IF fl.current_cluster < 2
    THEN WriteFirst(libresd_fat_alloc_cluster(f, card, 0), fl, src, done)
    ELSE WriteBoundary(f, card, fl, src, done)

WriteDone(r) ==
    [fat |-> r.fat, sd |-> r.sd, file |-> r.file,
     err |-> IF r.hang THEN "HANG" ELSE "OK",
     total_written |-> r.total_written]

\* [fat, sd, file, err, total_written]
libresd_fat_write(f, card, fl, src) ==
    IF ~fl.is_open
    THEN [fat |-> f, sd |-> card, file |-> fl, err |-> "INVALID_HANDLE",
          total_written |-> 0]
    ELSE IF ~HasBit(fl.mode, LIBRESD_WRITE) /\ ~HasBit(fl.mode, LIBRESD_APPEND)
    THEN [fat |-> f, sd |-> card, file |-> fl, err |-> "READ_ONLY",
          total_written |-> 0]
    ELSE WriteDone(WriteLoop(f, card, fl, src, 0))

\* flush, libresd_fat_sync having returned s
FlushSynced(s, fl) == [fat |-> s.fat, sd |-> s.sd, file |-> fl, err |-> s.err]

\* [fat, sd, file, err]
libresd_fat_flush(f, card, fl) ==
    IF ~fl.is_open THEN [fat |-> f, sd |-> card, file |-> fl, err |-> "INVALID_HANDLE"]
    ELSE IF fl.buffer_dirty /\ fl.buffer_sector # NO_SECTOR
    THEN FlushSynced(libresd_fat_sync(f, libresd_sd_write_sector(card, fl.buffer_sector,
                                                                  fl.buffer)),
                     [fl EXCEPT !.buffer_dirty = FALSE])
    ELSE FlushSynced(libresd_fat_sync(f, card), fl)

\* truncate's search for the cluster that links to target.  [fat, prev, hang]
\* hang = the loop runs on after MaxWalk rounds, or a round has left prev
\* and the volume as they were and every later round repeats it.
RECURSIVE FindPrev(_, _, _, _, _)
FindPrevStep(m, n, card, prev, target, fuel) ==
    IF m.value = prev /\ m.fat = n.fat THEN [fat |-> m.fat, prev |-> prev, hang |-> TRUE]
    ELSE FindPrev(m.fat, card, m.value, target, fuel - 1)

FindPrevAt(n, card, prev, target, fuel) ==
    IF n.value = target THEN [fat |-> n.fat, prev |-> prev, hang |-> FALSE]
    ELSE IF fuel = 0 THEN [fat |-> n.fat, prev |-> prev, hang |-> TRUE]
    ELSE FindPrevStep(libresd_fat_next_cluster(n.fat, card, prev), n, card, prev, target,
                      fuel)

FindPrev(f, card, prev, target, fuel) ==
    FindPrevAt(libresd_fat_next_cluster(f, card, prev), card, prev, target, fuel)

TruncateDone(g, c, fl) ==
    [fat |-> g, sd |-> c, file |-> [fl EXCEPT !.file_size = fl.position], err |-> "OK"]

TruncateStuck(g, c, fl) == [fat |-> g, sd |-> c, file |-> fl, err |-> "HANG"]

\* the end-of-chain value has been stored in the chain's new last cluster
TruncateMarked(w, fl) == TruncateDone(w.fat, w.sd, fl)

\* the predecessor of the current cluster has been searched for
TruncatePrev(pv, card, fl) ==
    IF pv.hang THEN TruncateStuck(pv.fat, card, fl)
    ELSE TruncateMarked(libresd_fat_write_entry(pv.fat, card, pv.prev, EocMark(pv.fat)),
                        [fl EXCEPT !.current_cluster = pv.prev])

\* position on a cluster boundary: the chain from the current cluster on has
\* been freed
TruncateFromCurrent(fc, fl) ==
    IF fc.hang THEN TruncateStuck(fc.fat, fc.sd, fl)
    ELSE IF fl.first_cluster # fl.current_cluster
    THEN TruncatePrev(FindPrev(fc.fat, fc.sd, fl.first_cluster, fl.current_cluster,
                               MaxWalk),
                      fc.sd, fl)
    ELSE TruncateDone(fc.fat, fc.sd,
                      [fl EXCEPT !.first_cluster = 0, !.current_cluster = 0])

\* otherwise: the chain from the next cluster on has been freed
TruncateFreed(fc, fl) ==
    IF fc.hang THEN TruncateStuck(fc.fat, fc.sd, fl)
    ELSE TruncateMarked(libresd_fat_write_entry(fc.fat, fc.sd, fl.current_cluster,
                                                EocMark(fc.fat)),
                        fl)

TruncateFromNext(n, card, fl) ==
    IF n.value >= 2
    THEN TruncateFreed(libresd_fat_free_chain(n.fat, card, n.value), fl)
    ELSE TruncateDone(n.fat, card, fl)

\* [fat, sd, file, err]
libresd_fat_truncate(f, card, fl) ==
    IF ~fl.is_open THEN [fat |-> f, sd |-> card, file |-> fl, err |-> "INVALID_HANDLE"]
    ELSE IF ~HasBit(fl.mode, LIBRESD_WRITE)
    THEN [fat |-> f, sd |-> card, file |-> fl, err |-> "READ_ONLY"]
    ELSE IF fl.current_cluster >= 2 /\ fl.position < fl.file_size
    THEN IF fl.cluster_offset = 0 /\ fl.position > 0
         THEN TruncateFromCurrent(libresd_fat_free_chain(f, card, fl.current_cluster), fl)
         ELSE TruncateFromNext(libresd_fat_next_cluster(f, card, fl.current_cluster),
                               card, fl)
    ELSE TruncateDone(f, card, fl)

\* unlink, the file's chain freed: the entry's first byte becomes 0xE5
UnlinkFreed(fc, r) ==
    IF fc.hang THEN [fat |-> fc.fat, sd |-> fc.sd, err |-> "HANG"]
    ELSE [fat |-> fc.fat,
          sd |-> libresd_sd_write_sector(fc.sd, r.dir_sector,
                    [libresd_sd_read_sector(fc.sd, r.dir_sector)
                        EXCEPT ![r.dir_offset] = DIRENT_FREE]),
          err |-> "OK"]

UnlinkResolved(r, card) ==
    IF r.err # "OK" THEN [fat |-> r.fat, sd |-> card, err |-> r.err]
    ELSE IF ~r.set THEN [fat |-> r.fat, sd |-> card, err |-> "UNDEFINED"]
    ELSE IF HasBit(r.info.attr, LIBRESD_ATTR_DIRECTORY)
    THEN [fat |-> r.fat, sd |-> card, err |-> "NOT_FILE"]
    ELSE IF r.info.first_cluster >= 2
    THEN UnlinkFreed(libresd_fat_free_chain(r.fat, card, r.info.first_cluster), r)
    ELSE UnlinkFreed([fat |-> r.fat, sd |-> card, hang |-> FALSE], r)

\* [fat, sd, err]
libresd_fat_unlink(f, card, path) ==
    IF ~f.mounted THEN [fat |-> f, sd |-> card, err |-> "NOT_MOUNTED"]
    ELSE UnlinkResolved(fat_resolve_path(f, card, path), card)

(***************************************************************************)
(* Directories (libresd_fat.c, libresd_file.c): opendir, mkdir, rmdir      *)
(***************************************************************************)
\* memset(dir, 0, sizeof)
ClosedDir ==
    [first_cluster |-> 0, current_cluster |-> 0, current_sector |-> 0,
     entry_offset |-> 0, is_open |-> FALSE, buffer |-> ZeroSector]

OpenDirResolved(r, card) ==
    IF r.err # "OK" THEN [fat |-> r.fat, dir |-> ClosedDir, err |-> r.err]
    ELSE IF ~HasBit(r.info.attr, LIBRESD_ATTR_DIRECTORY)
    THEN [fat |-> r.fat, dir |-> ClosedDir, err |-> "NOT_DIR"]
    ELSE [fat |-> r.fat, dir |-> DirStart(r.fat, card, r.cluster), err |-> "OK"]

\* [fat, dir, err]
libresd_fat_opendir(f, card, path) ==
    IF ~f.mounted THEN [fat |-> f, dir |-> ClosedDir, err |-> "NOT_MOUNTED"]
    ELSE IF path = <<>> \/ path = <<47>>
    THEN [fat |-> f, dir |-> DirStart(f, card, RootCluster(f)), err |-> "OK"]
    ELSE OpenDirResolved(fat_resolve_path(f, card, path), card)

\* The entry mkdir builds for "." or "..": the name, the directory
\* attribute, the cluster, creation and modification stamps.
DotEntryStamped(z, date, time) ==
    WRITE16(WRITE16(WRITE16(WRITE16(z, 16, date), 14, time), 24, date), 22, time)

DotEntry(name, cluster, dt) ==
    DotEntryStamped(
        WRITE16(WRITE16([i \in 0..(FAT_DIRENT_SIZE - 1) |->
                            IF i < 11 THEN name[i + 1]
                            ELSE IF i = 11 THEN LIBRESD_ATTR_DIRECTORY
                            ELSE 0],
                        20, (cluster \div 65536) % 65536),
                26, cluster % 65536),
        LIBRESD_FAT_DATE(dt.year, dt.month, dt.day),
        LIBRESD_FAT_TIME(dt.hour, dt.minute, dt.second))

\* The first sector of a new directory at cluster.
DotSectorOf(dot, dotdot) ==
    [i \in Offsets |->
        IF i < FAT_DIRENT_SIZE THEN dot[i]
        ELSE IF i < 2 * FAT_DIRENT_SIZE THEN dotdot[i - FAT_DIRENT_SIZE]
        ELSE 0]

DotSector(cluster, dt) ==
    DotSectorOf(DotEntry(DotName, cluster, dt), DotEntry(DotDotName, 0, dt))

\* mkdir, the entry linked to its cluster: the cluster's first sector gets
\* "." and "..", its other sectors are zeroed.
MkdirFilled(f, card, cluster) ==
    [fat |-> f,
     sd |-> libresd_sd_write_sector(ZeroCluster(f, card, cluster),
                                    libresd_fat_cluster_to_sector(f, cluster),
                                    DotSector(cluster, libresd_hal_get_datetime)),
     err |-> "OK"]

\* mkdir, the cluster allocated: the new entry gets the cluster, or is
\* marked deleted again when there was none.
MkdirLinked(a, c) ==
    IF a.hang THEN [fat |-> a.fat, sd |-> a.sd, err |-> "HANG"]
    ELSE IF a.cluster = 0
    THEN [fat |-> a.fat,
          sd |-> libresd_sd_write_sector(a.sd, c.dir_sector,
                    [libresd_sd_read_sector(a.sd, c.dir_sector)
                        EXCEPT ![c.dir_offset] = DIRENT_FREE]),
          err |-> "FULL"]
    ELSE MkdirFilled(a.fat,
                     libresd_sd_write_sector(a.sd, c.dir_sector,
                        WRITE16(WRITE16(libresd_sd_read_sector(a.sd, c.dir_sector),
                                        c.dir_offset + 20, (a.cluster \div 65536) % 65536),
                                c.dir_offset + 26, a.cluster % 65536)),
                     a.cluster)

MkdirCreated(c) ==
    IF c.err # "OK" THEN [fat |-> c.fat, sd |-> c.sd, err |-> c.err]
    ELSE MkdirLinked(libresd_fat_alloc_cluster(c.fat, c.sd, 0), c)

\* mkdir, the path looked up by libresd_fat_exists
MkdirChecked(r, card, path) ==
    IF r.err = "OK" THEN [fat |-> r.fat, sd |-> card, err |-> "EXISTS"]
    ELSE IF r.err = "HANG" THEN [fat |-> r.fat, sd |-> card, err |-> "HANG"]
    ELSE MkdirCreated(libresd_fat_create_file(r.fat, card, path, LIBRESD_ATTR_DIRECTORY))

\* [fat, sd, err]
libresd_fat_mkdir(f, card, path) ==
    IF ~f.mounted THEN [fat |-> f, sd |-> card, err |-> "NOT_MOUNTED"]
    ELSE MkdirChecked(fat_resolve_path(f, card, path), card, path)

\* rmdir's loop over the children of the directory.  [fat, err]: OK when
\* every name read begins with '.'.
RECURSIVE RmdirScan(_, _, _, _)
RmdirChild(c, card, fuel) ==
    IF c.err = "HANG" THEN [fat |-> c.fat, err |-> "HANG"]
    ELSE IF c.err # "OK" THEN [fat |-> c.fat, err |-> "OK"]
    ELSE IF c.info.name = <<>> \/ c.info.name[1] # 46
    THEN [fat |-> c.fat, err |-> "DIR_NOT_EMPTY"]
    ELSE RmdirScan(c.fat, card, c.dir, fuel - 1)

RmdirScan(f, card, d, fuel) ==
    IF fuel = 0 THEN [fat |-> f, err |-> "HANG"]
    ELSE RmdirChild(libresd_fat_readdir(f, card, d), card, fuel)

\* rmdir keeps the directory's entry as it is
RmdirFreedKeepsEntry(fc, r) ==
    IF fc.hang THEN [fat |-> fc.fat, sd |-> fc.sd, err |-> "HANG"]
    ELSE [fat |-> fc.fat, sd |-> fc.sd, err |-> "OK"]

\* rmdir, the directory's chain freed: the entry's first byte becomes 0xE5
RmdirFreed(fc, r) ==
    IF fc.hang THEN [fat |-> fc.fat, sd |-> fc.sd, err |-> "HANG"]
    ELSE [fat |-> fc.fat,
          sd |-> libresd_sd_write_sector(fc.sd, r.dir_sector,
                    [libresd_sd_read_sector(fc.sd, r.dir_sector)
                        EXCEPT ![r.dir_offset] = DIRENT_FREE]),
          err |-> "OK"]

RmdirScanned(s, r, card) ==
    IF s.err # "OK" THEN [fat |-> s.fat, sd |-> card, err |-> s.err]
    ELSE IF r.info.first_cluster >= 2
    THEN RmdirFreed(libresd_fat_free_chain(s.fat, card, r.info.first_cluster), r)
    ELSE RmdirFreed([fat |-> s.fat, sd |-> card, hang |-> FALSE], r)

RmdirOpened(o, r, card) ==
    IF o.err # "OK" THEN [fat |-> o.fat, sd |-> card, err |-> o.err]
    ELSE RmdirScanned(RmdirScan(o.fat, card, o.dir, MaxWalk), r, card)

\* The path that names a directory itself ("/", "") leaves dir_sector and
\* dir_offset unset.
RmdirResolved(r, card, path) ==
    IF r.err # "OK" THEN [fat |-> r.fat, sd |-> card, err |-> r.err]
    ELSE IF ~HasBit(r.info.attr, LIBRESD_ATTR_DIRECTORY)
    THEN [fat |-> r.fat, sd |-> card, err |-> "NOT_DIR"]
    ELSE IF ~r.located THEN [fat |-> r.fat, sd |-> card, err |-> "UNDEFINED"]
    ELSE RmdirOpened(libresd_fat_opendir(r.fat, card, path), r, card)

\* [fat, sd, err]
libresd_fat_rmdir(f, card, path) ==
    IF ~f.mounted THEN [fat |-> f, sd |-> card, err |-> "NOT_MOUNTED"]
    ELSE RmdirResolved(fat_resolve_path(f, card, path), card, path)

\* seek's walk along the chain towards new_pos.  [fat, file]
RECURSIVE SeekWalk(_, _, _, _)
\* the walk leaves the current cluster and next_cluster has returned n
SeekNext(n, card, fl, new_pos) ==
    IF n.value = 0 THEN [fat |-> n.fat, file |-> fl]
    ELSE SeekWalk(n.fat, card, [fl EXCEPT !.current_cluster = n.value], new_pos)

SeekWalk(f, card, fl, new_pos) ==
    IF fl.position < new_pos /\ fl.current_cluster >= 2
    THEN IF new_pos - fl.position >= f.cluster_size - fl.cluster_offset
         THEN SeekNext(libresd_fat_next_cluster(f, card, fl.current_cluster), card,
                       [fl EXCEPT !.position = @ + (f.cluster_size - fl.cluster_offset),
                                  !.cluster_offset = 0],
                       new_pos)
         ELSE [fat |-> f,
               file |-> [fl EXCEPT !.position = new_pos,
                                   !.cluster_offset = @ + (new_pos - fl.position)]]
    ELSE [fat |-> f, file |-> fl]

SeekBase(fl, whence) ==
    IF whence = LIBRESD_SEEK_SET THEN 0
    ELSE IF whence = LIBRESD_SEEK_CUR THEN fl.position
    ELSE fl.file_size

\* seek's clamp of the target on a handle that cannot write
SeekTarget(fl, wanted) ==
    IF ~HasBit(fl.mode, LIBRESD_WRITE) /\ wanted > fl.file_size
    THEN fl.file_size ELSE wanted

SeekDone(w) == [fat |-> w.fat, file |-> w.file, err |-> "OK"]

\* seek to new_pos: back to the first cluster when the target is behind
SeekTo(f, card, fl, new_pos) ==
    IF new_pos < fl.position \/ new_pos = 0
    THEN SeekDone(SeekWalk(f, card,
                           [fl EXCEPT !.current_cluster = fl.first_cluster,
                                      !.cluster_offset = 0, !.position = 0],
                           new_pos))
    ELSE SeekDone(SeekWalk(f, card, fl, new_pos))

\* [fat, file, err]
libresd_fat_seek(f, card, fl, offset, whence) ==
    IF ~fl.is_open THEN [fat |-> f, file |-> fl, err |-> "INVALID_HANDLE"]
    ELSE IF whence \notin {LIBRESD_SEEK_SET, LIBRESD_SEEK_CUR, LIBRESD_SEEK_END}
    THEN [fat |-> f, file |-> fl, err |-> "INVALID_PARAM"]
    ELSE IF offset < 0 /\ -offset > SeekBase(fl, whence)
    THEN [fat |-> f, file |-> fl, err |-> "SEEK"]
    ELSE SeekTo(f, card, fl, SeekTarget(fl, SeekBase(fl, whence) + offset))

libresd_fat_tell(fl) == fl.position

libresd_fat_size(fl) == fl.file_size

(***************************************************************************)
(* SpecFat: a caller of the FAT table API on a mounted volume              *)
(***************************************************************************)
FatImages == {ImgFat12, ImgFat16, ImgFat32}

\* Clusters and values the caller uses, per FAT width: both sides of a FAT
\* sector boundary, and the FAT12 entries at byte offset 511 of a sector.
FatClusters(f) ==
    CASE f.fs_type = LIBRESD_FS_FAT12 -> {3, 341, 342, 682}
      [] f.fs_type = LIBRESD_FS_FAT16 -> {3, 255, 256}
      [] OTHER -> {3, 127, 128}

FatValues(f) ==
    CASE f.fs_type = LIBRESD_FS_FAT12 -> {0, 342, 4095}
      [] f.fs_type = LIBRESD_FS_FAT16 -> {0, 256, 65535}
      [] OTHER -> {0, 128, 268435455, 1879048320}

\* Answers of a card that leaves the ACMD41 loop at the first iteration.
TryReady == [r55 |-> 1, r41 |-> 0, r1 |-> 1]

\* A high-capacity card that answers every step of init at once.
SdhcCard ==
    [r0 |-> 1, r8 |-> 1, echo |-> TRUE, tries |-> <<TryReady>>,
     r58 |-> 0, ccs |-> TRUE, csd |-> "v2"]

\* The link at rest, with a card in the slot.
IdleLink ==
    [cs |-> "high", present |-> TRUE, write_protect |-> FALSE, card |-> SdhcCard,
     log |-> <<>>]

InitFat ==
    /\ \E img \in FatImages :
          /\ sd = CardOf(img)
          /\ fat = Mounted(img)
    /\ file = ClosedFile
    /\ last = [op |-> "mount", ret |-> "OK"]
    /\ nops = 0
    /\ caller = [script |-> <<>>, maxpos |-> 0]
    /\ hal = IdleLink

\* A call that does not return leaves the caller inside it for good.
Returned == last.ret # "HANG"

FatStep ==
    /\ Returned
    /\ nops < MaxFatOps
    /\ nops' = nops + 1
    /\ file' = file
    /\ caller' = caller
    /\ hal' = hal

\* What a call of the FAT table API leaves behind: r is what the function
\* returned, call the record of the call.
FatReturns(r, card, call) ==
    /\ fat' = r.fat
    /\ sd' = card
    /\ last' = call

ReadEntryReturns(r, c) ==
    FatReturns(r, sd, [op |-> "read_entry", ret |-> "OK", cluster |-> c, value |-> r.value])

ReadEntryOp ==
    /\ FatStep
    /\ \E c \in FatClusters(fat) :
          ReadEntryReturns(libresd_fat_read_entry(fat, sd, c), c)

NextClusterReturns(r, c) ==
    FatReturns(r, sd, [op |-> "next_cluster", ret |-> "OK", cluster |-> c,
                       value |-> r.value])

NextClusterOp ==
    /\ FatStep
    /\ \E c \in FatClusters(fat) :
          NextClusterReturns(libresd_fat_next_cluster(fat, sd, c), c)

WriteEntryReturns(r, c, v) ==
    FatReturns(r, r.sd, [op |-> "write_entry", ret |-> "OK", cluster |-> c, value |-> v])

WriteEntryOp ==
    /\ FatStep
    /\ \E c \in FatClusters(fat), v \in FatValues(fat) :
          WriteEntryReturns(libresd_fat_write_entry(fat, sd, c, v), c, v)

AllocClusterReturns(r, prev) ==
    FatReturns(r, r.sd, [op |-> "alloc_cluster", ret |-> IF r.hang THEN "HANG" ELSE "OK",
                         cluster |-> prev, value |-> r.cluster])

AllocClusterOp ==
    /\ FatStep
    /\ \E prev \in {0, 3} :
          AllocClusterReturns(libresd_fat_alloc_cluster(fat, sd, prev), prev)

FreeChainReturns(r, c) ==
    FatReturns(r, r.sd, [op |-> "free_chain", ret |-> IF r.hang THEN "HANG" ELSE "OK",
                         cluster |-> c])

FreeChainOp ==
    /\ FatStep
    /\ \E c \in FatClusters(fat) :
          FreeChainReturns(libresd_fat_free_chain(fat, sd, c), c)

SyncReturns(r) == FatReturns(r, r.sd, [op |-> "sync", ret |-> r.err])

SyncOp ==
    /\ FatStep
    /\ SyncReturns(libresd_fat_sync(fat, sd))

UnmountReturns(r) == FatReturns(r, r.sd, [op |-> "unmount", ret |-> "OK"])

UnmountOp ==
    /\ FatStep
    /\ fat.mounted
    /\ UnmountReturns(libresd_fat_unmount(fat, sd))

MountReturns(r) == FatReturns(r, sd, [op |-> "mount", ret |-> r.err])

MountOp ==
    /\ FatStep
    /\ ~fat.mounted
    /\ MountReturns(libresd_fat_mount(fat, sd))

NextFat ==
    \/ ReadEntryOp
    \/ NextClusterOp
    \/ WriteEntryOp
    \/ AllocClusterOp
    \/ FreeChainOp
    \/ SyncOp
    \/ UnmountOp
    \/ MountOp

SpecFat == InitFat /\ [][NextFat]_vars

\* ---------------------------------------------------------------------
\* Properties of the FAT layer (checked under SpecFat)
\* ---------------------------------------------------------------------

\* The value the caller expects to read back for a stored entry value: the
\* entry's width for FAT12/16, the low 28 bits for FAT32.
EntryMask(f, v) ==
    CASE f.fs_type = LIBRESD_FS_FAT12 -> v % 4096
      [] f.fs_type = LIBRESD_FS_FAT16 -> v % 65536
      [] OTHER -> v % 268435456

\* Entries observed around the ones the caller writes.
ProbeClusters(f) == FatClusters(f) \cup {c + 1 : c \in FatClusters(f)}

\* What the primary FAT copy holds on the card at FAT sector offset s, and
\* what copy i holds at the same offset.
FatCopySector(f, card, i, s) ==
    libresd_sd_read_sector(card, f.fat_start_sector + i * f.sectors_per_fat + s)

\* FAT sector offsets that any write has touched in any copy; all other FAT
\* sectors still hold the formatted image, which is identical in every copy.
TouchedFatOffsets(f, card) ==
    {(w - f.fat_start_sector) % f.sectors_per_fat :
        w \in {x \in DOMAIN card.written :
                  /\ x >= f.fat_start_sector
                  /\ x < f.fat_start_sector + f.num_fats * f.sectors_per_fat}}

FatCopiesIdentical(f, card) ==
    \A s \in TouchedFatOffsets(f, card) :
        \A i \in 1..(f.num_fats - 1) :
            FatCopySector(f, card, i, s) = FatCopySector(f, card, 0, s)

\* C2: whenever a single-entry FAT access replaces a buffered FAT sector that
\* holds unwritten modifications with another sector, the card holds the
\* replaced buffer's contents at its sector afterwards (the dirty buffer was
\* written back before the load).
C2_DirtyBufferFlushedBeforeLoad ==
    [][ ( /\ last'.op \in {"read_entry", "next_cluster", "write_entry"}
          /\ fat.fat_buffer_dirty
          /\ fat'.fat_buffer_sector # fat.fat_buffer_sector )
        => libresd_sd_read_sector(sd', fat.fat_buffer_sector) = fat.fat_buffer ]_vars

\* C3: after write_entry stores v at cluster c, read_entry of c returns v
\* (its low 28 bits on FAT32), and every other observed entry reads as before.
C3_WriteEntryRoundTrip ==
    [][ last'.op = "write_entry" =>
          /\ libresd_fat_read_entry(fat', sd', last'.cluster).value
                = EntryMask(fat, last'.value)
          /\ \A c \in ProbeClusters(fat) \ {last'.cluster} :
                libresd_fat_read_entry(fat', sd', c).value
                   = libresd_fat_read_entry(fat, sd, c).value ]_vars

\* C6: when sync or unmount has returned, every FAT copy on the card holds
\* the same contents as the primary copy.
C6_SyncLeavesFatCopiesIdentical ==
    (last.op \in {"sync", "unmount"} /\ last.ret = "OK")
        => FatCopiesIdentical(fat, sd)

(***************************************************************************)
(* Calls of the file API: each sets the volume, the card and the handle    *)
(* as the function leaves them and records the call in last.               *)
(***************************************************************************)
\* The bytes the caller writes: n bytes, none of them 0, varying with the index.
DataBytes(n) == [i \in 1..n |-> ((i * 7) % 251) + 1]

SeenPosition(fl) ==
    [caller EXCEPT !.maxpos = IF fl.position > @ THEN fl.position ELSE @]

\* What a call of the file API leaves behind: r is what the function
\* returned, call the record of the call, seen what the caller has seen.
FileReturns(r, card, fl, call, seen) ==
    /\ fat' = r.fat
    /\ sd' = card
    /\ file' = fl
    /\ last' = call
    /\ caller' = seen
    /\ hal' = hal

OpenReturns(r, path, mode) ==
    FileReturns(r, r.sd, r.file,
                [op |-> "open", ret |-> r.err, path |-> path, mode |-> mode],
                [caller EXCEPT !.maxpos = r.file.position])

DoOpen(path, mode) == OpenReturns(libresd_fat_open(fat, sd, file, path, mode), path, mode)

CloseReturns(r) ==
    FileReturns([fat |-> fat], r.sd, r.file, [op |-> "close", ret |-> r.err], caller)

DoClose == CloseReturns(libresd_fat_close(fat, sd, file))

ReadReturns(r, size) ==
    FileReturns(r, r.sd, r.file,
                [op |-> "read", ret |-> r.err, size |-> size, data |-> r.data],
                SeenPosition(r.file))

DoRead(size) == ReadReturns(libresd_fat_read(fat, sd, file, size), size)

WriteReturns(r, src) ==
    FileReturns(r, r.sd, r.file,
                [op |-> "write", ret |-> r.err, size |-> Len(src),
                 total_written |-> r.total_written],
                SeenPosition(r.file))

DoWrite(src) == WriteReturns(libresd_fat_write(fat, sd, file, src), src)

SeekReturns(r, offset, whence) ==
    FileReturns(r, sd, r.file,
                [op |-> "seek", ret |-> r.err, offset |-> offset, whence |-> whence],
                SeenPosition(r.file))

DoSeek(offset, whence) ==
    SeekReturns(libresd_fat_seek(fat, sd, file, offset, whence), offset, whence)

TruncateReturns(r) ==
    FileReturns(r, r.sd, r.file, [op |-> "truncate", ret |-> r.err], caller)

DoTruncate == TruncateReturns(libresd_fat_truncate(fat, sd, file))

FlushReturns(r) ==
    FileReturns(r, r.sd, r.file, [op |-> "flush", ret |-> r.err], caller)

DoFlush == FlushReturns(libresd_fat_flush(fat, sd, file))

UnlinkReturns(r, path) ==
    FileReturns(r, r.sd, file, [op |-> "unlink", ret |-> r.err, path |-> path], caller)

DoUnlink(path) == UnlinkReturns(libresd_fat_unlink(fat, sd, path), path)

(***************************************************************************)
(* Spec: a caller that opens one file and works on it in any order         *)
(***************************************************************************)
MaxOps == 5

\* "/big.bin"
PathBig == <<47, 98, 105, 103, 46, 98, 105, 110>>

FileImages == {ImgFat16Used, ImgSmall12}

OpenModes ==
    {LIBRESD_READ,
     LIBRESD_READ + LIBRESD_WRITE,
     LIBRESD_READ + LIBRESD_WRITE + LIBRESD_CREATE + LIBRESD_TRUNCATE,
     LIBRESD_APPEND}

WriteSizes == {5, 600}

\* the last is 0xFFFFFFFF
ReadSizes == {4, 1000, -1}

SeekTargets == {0, 512, 600, 5000}

Init ==
    /\ \E img \in FileImages :
          /\ sd = CardOf(img)
          /\ fat = Mounted(img)
    /\ file = ClosedFile
    /\ last = [op |-> "mount", ret |-> "OK"]
    /\ nops = 0
    /\ caller = [script |-> <<>>, maxpos |-> 0]
    /\ hal = IdleLink

FileStep == Returned /\ nops < MaxOps /\ nops' = nops + 1

OpenOp ==
    /\ FileStep
    /\ ~file.is_open
    /\ \E mode \in OpenModes : DoOpen(PathBig, mode)

CloseOp == FileStep /\ file.is_open /\ DoClose

ReadOp == FileStep /\ file.is_open /\ \E size \in ReadSizes : DoRead(size)

WriteOp == FileStep /\ file.is_open /\ \E n \in WriteSizes : DoWrite(DataBytes(n))

SeekSetOp ==
    FileStep /\ file.is_open /\ \E n \in SeekTargets : DoSeek(n, LIBRESD_SEEK_SET)

SeekEndOp == FileStep /\ file.is_open /\ DoSeek(0, LIBRESD_SEEK_END)

TruncateOp == FileStep /\ file.is_open /\ DoTruncate

Next ==
    \/ OpenOp
    \/ CloseOp
    \/ ReadOp
    \/ WriteOp
    \/ SeekSetOp
    \/ SeekEndOp
    \/ TruncateOp

Spec == Init /\ [][Next]_vars

(***************************************************************************)
(* SpecScript: a caller that runs one of a set of fixed call sequences     *)
(***************************************************************************)
\* "/a.txt" and "/longfilename.txt"
PathA == <<47, 97, 46, 116, 120, 116>>
PathLong == <<47, 108, 111, 110, 103, 102, 105, 108, 101, 110, 97, 109, 101,
              46, 116, 120, 116>>

WriteCreateTruncate == LIBRESD_WRITE + LIBRESD_CREATE + LIBRESD_TRUNCATE

RECURSIVE SumSeq(_)
SumSeq(q) == IF q = <<>> THEN 0 ELSE q[1] + SumSeq(Tail(q))

\* The write calls that hand over DataBytes(total) in pieces of the given sizes.
RECURSIVE WriteSteps(_, _, _)
WriteSteps(data, pieces, from) ==
    IF pieces = <<>> THEN <<>>
    ELSE <<[op |-> "write", src |-> SubSeq(data, from, from + pieces[1] - 1)]>>
            \o WriteSteps(data, Tail(pieces), from + pieces[1])

\* The calls of a script.
\*   roundtrip: create the file, write the pieces, close, reopen for reading,
\*              read to the end, close.
\*   sparse:    create the file, seek to n, write k bytes, close, reopen for
\*              reading, read to the end, close.
\*   remove:    create the file, write, flush, close, unlink.
Steps(d) ==
    CASE d.kind = "roundtrip" ->
            <<[op |-> "open", path |-> d.path, mode |-> WriteCreateTruncate]>>
            \o WriteSteps(DataBytes(SumSeq(d.pieces)), d.pieces, 1)
            \o <<[op |-> "close"],
                 [op |-> "open", path |-> d.path, mode |-> LIBRESD_READ],
                 [op |-> "read_all"],
                 [op |-> "close"]>>
      [] d.kind = "sparse" ->
            <<[op |-> "open", path |-> d.path, mode |-> WriteCreateTruncate],
              [op |-> "seek", offset |-> d.n, whence |-> LIBRESD_SEEK_SET],
              [op |-> "write", src |-> DataBytes(d.k)],
              [op |-> "close"],
              [op |-> "open", path |-> d.path, mode |-> LIBRESD_READ],
              [op |-> "read_all"],
              [op |-> "close"]>>
      [] d.kind = "remove" ->
            <<[op |-> "open", path |-> d.path, mode |-> WriteCreateTruncate],
              [op |-> "write", src |-> DataBytes(d.k)],
              [op |-> "flush"],
              [op |-> "close"],
              [op |-> "unlink", path |-> d.path]>>

Scripts ==
    {[kind |-> "roundtrip", path |-> PathA, pieces |-> q] :
        q \in {<<5>>, <<1024>>, <<1030>>, <<512, 518>>, <<2048>>, <<700, 700, 700>>}}
    \cup {[kind |-> "roundtrip", path |-> PathLong, pieces |-> <<5>>]}
    \cup {[kind |-> "sparse", path |-> PathA, n |-> n, k |-> k] :
             n \in {600, 5000}, k \in {1, 5}}
    \cup {[kind |-> "remove", path |-> PathA, k |-> k] : k \in {5, 1030}}

ScriptImages == {ImgSmall12, ImgFat16, ImgFat32Used}

\* The size of the buffer the caller reads into.
ReadChunk == 4096

\* The caller's loop "read until read fails".  [fat, sd, file, err, data]
RECURSIVE ReadAllLoop(_, _, _, _)
ReadAllNext(r, data) ==
    IF r.err = "OK" THEN ReadAllLoop(r.fat, r.sd, r.file, data \o r.data)
    ELSE [fat |-> r.fat, sd |-> r.sd, file |-> r.file, err |-> r.err, data |-> data]

ReadAllLoop(f, card, fl, data) ==
    ReadAllNext(libresd_fat_read(f, card, fl, ReadChunk), data)

ReadAllReturns(r) ==
    FileReturns(r, r.sd, r.file, [op |-> "read_all", ret |-> r.err, data |-> r.data],
                SeenPosition(r.file))

DoReadAll == ReadAllReturns(ReadAllLoop(fat, sd, file, <<>>))

InitScript ==
    /\ \E img \in ScriptImages :
          /\ sd = CardOf(img)
          /\ fat = Mounted(img)
    /\ file = ClosedFile
    /\ last = [op |-> "mount", ret |-> "OK"]
    /\ nops = 0
    /\ \E d \in Scripts : caller = [script |-> d, maxpos |-> 0]
    /\ hal = IdleLink

\* The call the script makes next; a script ends at a call that failed.
ScriptStep(op) ==
    /\ Returned
    /\ last.ret \in {"OK", "EOF"}
    /\ nops < Len(Steps(caller.script))
    /\ Steps(caller.script)[nops + 1].op = op
    /\ nops' = nops + 1

NextCall == Steps(caller.script)[nops + 1]

ScriptOpen == ScriptStep("open") /\ DoOpen(NextCall.path, NextCall.mode)

ScriptWrite == ScriptStep("write") /\ DoWrite(NextCall.src)

ScriptSeek == ScriptStep("seek") /\ DoSeek(NextCall.offset, NextCall.whence)

ScriptFlush == ScriptStep("flush") /\ DoFlush

ScriptClose == ScriptStep("close") /\ DoClose

ScriptReadAll == ScriptStep("read_all") /\ DoReadAll

ScriptUnlink == ScriptStep("unlink") /\ DoUnlink(NextCall.path)

NextScript ==
    \/ ScriptOpen
    \/ ScriptWrite
    \/ ScriptSeek
    \/ ScriptFlush
    \/ ScriptClose
    \/ ScriptReadAll
    \/ ScriptUnlink

SpecScript == InitScript /\ [][NextScript]_vars

(***************************************************************************)
(* SpecDir: a caller that makes and removes directories in any order       *)
(***************************************************************************)
MaxDirOps == 4

\* "/p" and "/p/d"
PathP == <<47, 112>>
PathPD == <<47, 112, 47, 100>>

DirPaths == {PathP, PathPD, PathBig}

DirImages == {ImgSmall12, ImgFat16Used, ImgFat32Used, ImgPart16}

\* What a scan of a directory with readdir yields: the set of the
\* (name, first cluster) pairs of its entries.
RECURSIVE ListDir(_, _, _, _)
ListDirGot(c, card, fuel) ==
    IF c.err # "OK" THEN {}
    ELSE {<<c.info.name, c.info.first_cluster>>} \cup ListDir(c.fat, card, c.dir, fuel - 1)

ListDir(f, card, d, fuel) ==
    IF fuel = 0 THEN {} ELSE ListDirGot(libresd_fat_readdir(f, card, d), card, fuel)

ListOpened(o, card) ==
    IF o.err # "OK" THEN {} ELSE ListDir(o.fat, card, o.dir, MaxWalk)

ParentListing(f, card, path) ==
    ListOpened(libresd_fat_opendir(f, card, ParentPathAt(path, LastSlash(path))), card)

MkdirReturns(r, path, listing) ==
    FileReturns(r, r.sd, file, [op |-> "mkdir", ret |-> r.err, path |-> path],
                [caller EXCEPT !.listing = listing])

DoMkdir(path) ==
    MkdirReturns(libresd_fat_mkdir(fat, sd, path), path, ParentListing(fat, sd, path))

RmdirReturns(r, path) ==
    FileReturns(r, r.sd, file, [op |-> "rmdir", ret |-> r.err, path |-> path], caller)

DoRmdir(path) == RmdirReturns(libresd_fat_rmdir(fat, sd, path), path)

InitDir ==
    /\ \E img \in DirImages :
          /\ sd = CardOf(img)
          /\ fat = Mounted(img)
    /\ file = ClosedFile
    /\ last = [op |-> "mount", ret |-> "OK"]
    /\ nops = 0
    /\ caller = [script |-> <<>>, maxpos |-> 0, listing |-> {}]
    /\ hal = IdleLink

DirCallStep == Returned /\ nops < MaxDirOps /\ nops' = nops + 1

MkdirOp == DirCallStep /\ \E path \in DirPaths : DoMkdir(path)

RmdirOp == DirCallStep /\ \E path \in DirPaths : DoRmdir(path)

NextDir ==
    \/ MkdirOp
    \/ RmdirOp

SpecDir == InitDir /\ [][NextDir]_vars

(***************************************************************************)
(* stat and rename (libresd_fat.c, libresd_file.c), and what a caller of   *)
(* fat_resolve_path finds in the out-parameters the resolver did not store *)
(***************************************************************************)
\* fat_resolve_path returns OK without storing anything when the path ends
\* in "." or "..": info, dir_sector and dir_offset of its caller then hold
\* what the stack held before.
ResolveOnStack(r, stack) ==
    IF r.err = "OK" /\ ~r.set
    THEN [r EXCEPT !.set = TRUE, !.located = TRUE, !.info = stack.info,
                   !.cluster = stack.info.first_cluster,
                   !.dir_sector = stack.dir_sector, !.dir_offset = stack.dir_offset]
    ELSE r

\* libresd_fat_open with the contents of its frame given.  [fat, sd, file, err]
OpenOnStack(f, card, fl, path, mode, stack) ==
    IF ~f.mounted THEN [fat |-> f, sd |-> card, file |-> fl, err |-> "NOT_MOUNTED"]
    ELSE OpenResolved(ResolveOnStack(fat_resolve_path(f, card, path), stack), card,
                      path, mode)

\* [fat, err, info]; info is the caller's, filled by the resolver or not
libresd_fat_stat(f, card, path, stack) ==
    IF ~f.mounted THEN [fat |-> f, err |-> "NOT_MOUNTED", info |-> stack.info]
    ELSE ResolveOnStack(fat_resolve_path(f, card, path), stack)

LIBRESD_MAX_PATH == 256

\* strncpy and strncat of at most n characters
FirstChars(str, n) == SubSeq(str, 1, IF Len(str) < n THEN Len(str) ELSE n)

\* cwd_path with the separator chdir appends before a relative path
CwdWithSlash(cwd) ==
    IF Len(cwd) > 1 THEN cwd \o FirstChars(<<47>>, LIBRESD_MAX_PATH - Len(cwd) - 1)
    ELSE cwd

CwdJoined(cwd, path) == cwd \o FirstChars(path, LIBRESD_MAX_PATH - Len(cwd) - 1)

ChdirPath(cwd, path) ==
    IF path[1] = 47 THEN FirstChars(path, LIBRESD_MAX_PATH - 1)
    ELSE CwdJoined(CwdWithSlash(cwd), path)

ChdirResolved(r, path) ==
    IF r.err # "OK" THEN [fat |-> r.fat, err |-> r.err]
    ELSE IF ~HasBit(r.info.attr, LIBRESD_ATTR_DIRECTORY)
    THEN [fat |-> r.fat, err |-> "NOT_DIR"]
    ELSE [fat |-> [r.fat EXCEPT !.cwd_cluster = r.info.first_cluster,
                                !.cwd_path = ChdirPath(r.fat.cwd_path, path)],
          err |-> "OK"]

\* libresd_fat_chdir with the contents of its frame given.  [fat, err]
libresd_fat_chdir(f, card, path, stack) ==
    IF ~f.mounted THEN [fat |-> f, err |-> "NOT_MOUNTED"]
    ELSE IF path = <<>> \/ path = <<47>>
    THEN [fat |-> [f EXCEPT !.cwd_cluster = RootCluster(f), !.cwd_path = <<47>>],
          err |-> "OK"]
    ELSE ChdirResolved(ResolveOnStack(fat_resolve_path(f, card, path), stack), path)

\* rename, both paths resolved: bytes 0..10 of the entry become the new name
RenameStored(r, card, fat_name) ==
    IF ~fat_name.ok THEN [fat |-> r.fat, sd |-> card, err |-> "INVALID_NAME"]
    ELSE [fat |-> r.fat,
          sd |-> libresd_sd_write_sector(card, r.dir_sector,
                    [i \in Offsets |->
                        IF i >= r.dir_offset /\ i < r.dir_offset + 11
                        THEN fat_name.name[i - r.dir_offset + 1]
                        ELSE libresd_sd_read_sector(card, r.dir_sector)[i]]),
          err |-> "OK"]

RenameOld(r, card, new_path) ==
    IF r.err # "OK" THEN [fat |-> r.fat, sd |-> card, err |-> r.err]
    ELSE IF ~r.located THEN [fat |-> r.fat, sd |-> card, err |-> "UNDEFINED"]
    ELSE RenameStored(r, card,
                      str_to_fat_name(FileNameAt(new_path, LastSlash(new_path))))

RenameNew(e, card, old_path, new_path) ==
    IF e.err = "OK" THEN [fat |-> e.fat, sd |-> card, err |-> "EXISTS"]
    ELSE RenameOld(fat_resolve_path(e.fat, card, old_path), card, new_path)

\* [fat, sd, err]
libresd_fat_rename(f, card, old_path, new_path) ==
    IF ~f.mounted THEN [fat |-> f, sd |-> card, err |-> "NOT_MOUNTED"]
    ELSE RenameNew(fat_resolve_path(f, card, new_path), card, old_path, new_path)

(***************************************************************************)
(* SpecTree: a caller that looks up, opens, renames and removes entries of *)
(* a volume that came with files and directories on it                     *)
(***************************************************************************)
MaxTreeOps == 2

\* The FAT16 volume with BIG.BIN on clusters 2..4, "longname.txt" and the
\* directories D (cluster 5) and D/E (cluster 6), E holding ".x".
ImgTree16 == Image([FmtFat16 EXCEPT !.used = 3, !.tree = TRUE])

\* The same tree on the small FAT12 volume, without BIG.BIN.
ImgTree12 == Image([FmtSmall12 EXCEPT !.tree = TRUE])

TreeImages == {ImgTree16, ImgTree12}

\* "/", "/d", "/d/e", "/d/.", "/d/e/..", "/d/e/../e", "/d/e/../..",
\* "/longname.txt", "/new.txt", "/none.txt", "/f"
PathRoot == <<47>>
PathD == <<47, 100>>
PathDE == <<47, 100, 47, 101>>
PathDDot == <<47, 100, 47, 46>>
PathDEUp == <<47, 100, 47, 101, 47, 46, 46>>
PathDEUpE == <<47, 100, 47, 101, 47, 46, 46, 47, 101>>
PathDEUpUp == <<47, 100, 47, 101, 47, 46, 46, 47, 46, 46>>
PathLongName == <<47, 108, 111, 110, 103, 110, 97, 109, 101, 46, 116, 120, 116>>
PathNew == <<47, 110, 101, 119, 46, 116, 120, 116>>
PathNone == <<47, 110, 111, 110, 101, 46, 116, 120, 116>>
PathF == <<47, 102>>

\* What the caller knows of the tree the card came with.
TreeDirs == {PathRoot, PathD, PathDE, PathDDot}
TreeFiles == {PathLongName}
TreeMissing == {PathNone, PathNew}

\* What "a/b/.." names: the path without the component and its "..".
TreeMeaning(path) ==
    CASE path = PathDEUp -> PathD
      [] path = PathDEUpE -> PathDE
      [] path = PathDEUpUp -> PathRoot
      [] OTHER -> path

TreeStatPaths ==
    {PathD, PathDE, PathDDot, PathDEUp, PathDEUpE, PathDEUpUp, PathLongName, PathNew}

\* "d", a path relative to the current directory
PathRelD == <<100>>

TreeChdirPaths == {PathRoot, PathD, PathRelD, PathDDot, PathDEUp, PathLongName}

TreeOpenModes ==
    {LIBRESD_READ,
     LIBRESD_WRITE + LIBRESD_CREATE + LIBRESD_EXCL,
     LIBRESD_WRITE + LIBRESD_CREATE + LIBRESD_EXCL + LIBRESD_TRUNCATE,
     LIBRESD_READ + LIBRESD_WRITE + LIBRESD_TRUNCATE}

TreeRenames ==
    {<<PathLongName, PathNew>>, <<PathD, PathF>>, <<PathD, PathLongName>>,
     <<PathNone, PathNew>>}

\* Contents of the frame of a call where the resolver stores nothing: as an
\* earlier lookup of a directory left it, or zero.
Stacks ==
    {[info |-> [ZeroInfo EXCEPT !.attr = LIBRESD_ATTR_DIRECTORY],
      dir_sector |-> 0, dir_offset |-> 0],
     [info |-> ZeroInfo, dir_sector |-> 0, dir_offset |-> 0]}

InitTree ==
    /\ \E img \in TreeImages :
          /\ sd = CardOf(img)
          /\ fat = Mounted(img)
    /\ file = ClosedFile
    /\ last = [op |-> "mount", ret |-> "OK"]
    /\ nops = 0
    /\ caller = [script |-> <<>>, maxpos |-> 0]
    /\ hal = IdleLink

TreeStep == Returned /\ nops < MaxTreeOps /\ nops' = nops + 1

StatReturns(r, path) ==
    FileReturns(r, sd, file,
                [op |-> "stat", ret |-> r.err, path |-> path,
                 attr |-> r.info.attr, size |-> r.info.size,
                 first_cluster |-> r.info.first_cluster],
                caller)

TreeStatOp ==
    /\ TreeStep
    /\ \E path \in TreeStatPaths, stack \in Stacks :
          StatReturns(libresd_fat_stat(fat, sd, path, stack), path)

TreeOpenOp ==
    /\ TreeStep
    /\ \E path \in TreeDirs \cup TreeFiles \cup TreeMissing,
          mode \in TreeOpenModes, stack \in Stacks :
          OpenReturns(OpenOnStack(fat, sd, file, path, mode, stack), path, mode)

RenameReturns(r, old_path, new_path) ==
    FileReturns(r, r.sd, file,
                [op |-> "rename", ret |-> r.err, path |-> old_path, to |-> new_path],
                caller)

TreeRenameOp ==
    /\ TreeStep
    /\ \E pair \in TreeRenames :
          RenameReturns(libresd_fat_rename(fat, sd, pair[1], pair[2]), pair[1], pair[2])

TreeRmdirOp == TreeStep /\ \E path \in {PathD, PathDE} : DoRmdir(path)

TreeUnlinkOp == TreeStep /\ \E path \in {PathLongName, PathNone} : DoUnlink(path)

\* filled: the info chdir read was stored by the resolver in this call.
ChdirReturns(r, path, filled) ==
    FileReturns(r, sd, file,
                [op |-> "chdir", ret |-> r.err, path |-> path, filled |-> filled],
                caller)

TreeChdirOp ==
    /\ TreeStep
    /\ \E path \in TreeChdirPaths, stack \in Stacks :
          ChdirReturns(libresd_fat_chdir(fat, sd, path, stack), path,
                       fat_resolve_path(fat, sd, path).set)

NextTree ==
    \/ TreeStatOp
    \/ TreeChdirOp
    \/ TreeOpenOp
    \/ TreeRenameOp
    \/ TreeRmdirOp
    \/ TreeUnlinkOp

SpecTree == InitTree /\ [][NextTree]_vars

(***************************************************************************)
(* SpecMount: a caller that mounts and unmounts cards of many formats      *)
(***************************************************************************)
MaxMountOps == 3

\* Sectors of a volume before its data area: the reserved sectors, the FAT
\* copies and the run of the fixed root directory.
FmtMetaSectors(fmt) ==
    fmt.reserved_sectors + fmt.num_fats * fmt.sectors_per_fat
    + ((fmt.root_entry_count * 32) + 511) \div 512

\* The format base resized to n clusters of spc sectors plus slack sectors
\* that fill no cluster.
FmtWithClusters(base, n, spc, slack) ==
    [base EXCEPT !.sectors_per_cluster = spc,
                 !.total_sectors = FmtMetaSectors(base) + n * spc + slack]

\* Volumes on both sides of the two type boundaries, laid out with FAT16
\* and with FAT32 fields.
BoundaryFmts ==
    {FmtWithClusters(base, n, spc, k * (spc - 1)) :
        base \in {FmtFat16, FmtFat32}, n \in {4084, 4085, 65524, 65525},
        spc \in {1, 4}, k \in {0, 1}}

\* Volumes of every cluster size a byte can hold a power of two for, and of
\* some other sizes.
ClusterSizeFmts ==
    {FmtWithClusters(FmtFat16, 100, spc, 0) :
        spc \in {0, 1, 2, 3, 4, 6, 8, 16, 32, 64, 96, 128, 255}}

\* Volumes whose parameter block has a field out of range, no signature, or
\* a total that leaves no cluster or is less than the sectors before the
\* data area.
BrokenFmts ==
    {[FmtFat16 EXCEPT !.bytes_per_sector = b] : b \in {0, 256, 1024}}
    \cup {[FmtFat16 EXCEPT !.reserved_sectors = 0],
          [FmtFat16 EXCEPT !.num_fats = 0],
          [FmtFat16 EXCEPT !.signed = FALSE],
          [FmtFat16 EXCEPT !.total_sectors = FmtMetaSectors(FmtFat16)],
          [FmtFat16 EXCEPT !.total_sectors = FmtMetaSectors(FmtFat16) - 1],
          [FmtFat16 EXCEPT !.total_sectors = 10]}

\* Cards with an MBR: the volume is the first partition, at sector 2048 or
\* 63, with a type mount recognizes or another one.
PartitionFmts ==
    {[f EXCEPT !.partition_type = t, !.partition_start = p] :
        f \in {FmtFat12, FmtFat16, FmtFat32, FmtWithClusters(FmtFat32, 65525, 1, 0)},
        t \in FatPartitionTypes \cup {0, 5, 7, 131},
        p \in {63, 2048}}

MountFmts == BoundaryFmts \cup ClusterSizeFmts \cup BrokenFmts \cup PartitionFmts

\* A card of which only the sectors that describe the volume are looked at.
BootImage(fmt) == [fmt |-> fmt]

InitMount ==
    /\ \E fmt \in MountFmts, initialized \in BOOLEAN :
          sd = [initialized |-> initialized, image |-> BootImage(fmt), written |-> <<>>]
    /\ fat = FreshFat
    /\ file = ClosedFile
    /\ last = [op |-> "none", ret |-> "OK"]
    /\ nops = 0
    /\ caller = [script |-> <<>>, maxpos |-> 0]
    /\ hal = IdleLink

MountStep ==
    /\ nops < MaxMountOps
    /\ nops' = nops + 1
    /\ file' = file
    /\ caller' = caller
    /\ hal' = hal

MountVolumeOp == MountStep /\ MountReturns(libresd_fat_mount(fat, sd))

UnmountVolumeOp ==
    MountStep /\ fat.mounted /\ UnmountReturns(libresd_fat_unmount(fat, sd))

NextMount ==
    \/ MountVolumeOp
    \/ UnmountVolumeOp

SpecMount == InitMount /\ [][NextMount]_vars

\* ---------------------------------------------------------------------
\* Properties of mount
\* ---------------------------------------------------------------------

\* The format whose parameter block mount is to read: there is no MBR, or
\* the MBR's first entry has a recognized type.
FmtIsFound(fmt) ==
    fmt.partition_start = 0 \/ fmt.partition_type \in FatPartitionTypes

\* The number of clusters the data sectors of a volume make up.
FmtClusterCount(fmt) ==
    IF fmt.total_sectors >= FmtMetaSectors(fmt)
    THEN (fmt.total_sectors - FmtMetaSectors(fmt)) \div fmt.sectors_per_cluster
    ELSE 0

TypeByRule(n) ==
    IF n < 4085 THEN LIBRESD_FS_FAT12
    ELSE IF n < 65525 THEN LIBRESD_FS_FAT16
    ELSE LIBRESD_FS_FAT32

\* C13: a mount that succeeds gives the volume the FAT type that the
\* Microsoft rule assigns to its cluster count, the number of sectors after
\* the reserved sectors, the FAT copies and the root run, divided by the
\* sectors per cluster: FAT12 below 4085, FAT16 below 65525, else FAT32.
C13_TypeByClusterCount ==
    (last.op = "mount" /\ last.ret = "OK" /\ FmtIsFound(sd.image.fmt))
    => fat.fs_type = TypeByRule(FmtClusterCount(sd.image.fmt))

\* C13, for volumes whose total covers the sectors before the data area.
C13_TypeByClusterCountCovered ==
    (sd.image.fmt.total_sectors >= FmtMetaSectors(sd.image.fmt))
    => C13_TypeByClusterCount

PowersOfTwo == {1, 2, 4, 8, 16, 32, 64, 128}

\* The validation rules a parameter block has to meet.
FmtBreaksRules(fmt) ==
    \/ fmt.bytes_per_sector # 512
    \/ fmt.sectors_per_cluster \notin PowersOfTwo
    \/ fmt.reserved_sectors = 0
    \/ fmt.num_fats = 0

\* C14: a mounted volume has at least one cluster, a cluster size of
\* sectors_per_cluster * 512 and a power of two in 1..128 as
\* sectors_per_cluster; and a mount of a volume whose parameter block breaks
\* a validation rule returns INVALID_FS and leaves the volume unmounted.
C14_MountedVolumeInvariant ==
    /\ fat.mounted
          => /\ fat.cluster_count # 0
             /\ fat.cluster_size = fat.sectors_per_cluster * 512
             /\ fat.sectors_per_cluster \in PowersOfTwo
    /\ ( /\ last.op = "mount"
         /\ sd.initialized
         /\ sd.image.fmt.signed
         /\ FmtIsFound(sd.image.fmt)
         /\ FmtBreaksRules(sd.image.fmt) )
          => last.ret = "INVALID_FS" /\ ~fat.mounted

\* What mount accepts of a parameter block.
FmtIsAccepted(fmt) ==
    /\ fmt.signed
    /\ fmt.bytes_per_sector = 512
    /\ fmt.sectors_per_cluster # 0
    /\ fmt.reserved_sectors # 0
    /\ fmt.num_fats # 0

\* C15: mount of a card whose sector 0 is an MBR with a recognized type in
\* its first entry reads the parameter block of that partition, and the FAT,
\* root and data start are the partition start plus the volume's own
\* offsets; with another type sector 0 itself is taken as the parameter
\* block (which an MBR does not hold), as it is on a card without an MBR.
C15_PartitionHandling ==
    (last.op = "mount" /\ sd.initialized)
    => /\ (FmtIsFound(sd.image.fmt) /\ FmtIsAccepted(sd.image.fmt))
            => /\ last.ret = "OK"
               /\ fat.sectors_per_cluster = sd.image.fmt.sectors_per_cluster
               /\ fat.sectors_per_fat = sd.image.fmt.sectors_per_fat
               /\ fat.fat_start_sector
                     = sd.image.fmt.partition_start + sd.image.fmt.reserved_sectors
               /\ fat.root_start_sector
                     = sd.image.fmt.partition_start + sd.image.fmt.reserved_sectors
                       + sd.image.fmt.num_fats * sd.image.fmt.sectors_per_fat
               /\ fat.data_start_sector
                     = IF fat.fs_type = LIBRESD_FS_FAT32 THEN fat.root_start_sector
                       ELSE sd.image.fmt.partition_start
                            + FmtMetaSectors(sd.image.fmt)
       /\ ~FmtIsFound(sd.image.fmt)
            => /\ last.ret = "INVALID_FS"
               /\ fat.sectors_per_cluster = 0

\* C15 witness: a FAT32 volume in a partition at sector 2048 of type 0x0C
\* has been mounted and its FAT starts behind the partition start.
C15_Witness ==
    /\ last.op = "mount"
    /\ last.ret = "OK"
    /\ sd.image.fmt.partition_start = 2048
    /\ sd.image.fmt.partition_type = 12
    /\ fat.fs_type = LIBRESD_FS_FAT32
    /\ fat.fat_start_sector = 2048 + 32

(***************************************************************************)
(* Card protocol (libresd_sd.c).  A call is followed over the link: the    *)
(* chip-select line it drives and the presence check, the link set-ups,    *)
(* the wake-up clocks and the commands it makes, in order.  What the card  *)
(* answers is given with the call.  sd is here the driver's libresd_sd_t:  *)
(* [initialized, type, block_addr, error_count, read_count, write_count].  *)
(***************************************************************************)
SD_CMD0 == 0
SD_CMD1 == 1
SD_CMD8 == 8
SD_CMD9 == 9
SD_CMD10 == 10
SD_CMD12 == 12
SD_CMD16 == 16
SD_CMD17 == 17
SD_CMD18 == 18
SD_CMD24 == 24
SD_CMD25 == 25
SD_CMD32 == 32
SD_CMD33 == 33
SD_CMD38 == 38
SD_CMD55 == 55
SD_CMD58 == 58
SD_ACMD23 == 23
SD_ACMD41 == 41
SD_R1_IDLE == 1
SD_R1_ILLEGAL_CMD == 4
SD_TOKEN_SINGLE == 254
SD_OCR_CCS == 1073741824

LIBRESD_SPI_INIT_HZ == 400000
LIBRESD_SPI_FAST_HZ == 4000000
LIBRESD_SPI_MAX_HZ == 25000000

LIBRESD_CARD_NONE == 0
LIBRESD_CARD_MMC == 1
LIBRESD_CARD_SD_V1 == 2
LIBRESD_CARD_SD_V2 == 3
LIBRESD_CARD_SDHC == 4
LIBRESD_CARD_SDXC == 5

\* What a call does on the link, one record per event; cs is the state of
\* the chip-select line when it happens.
LinkEvent(e, n, arg, cs) == [e |-> e, n |-> n, arg |-> arg, cs |-> cs]

libresd_hal_cs_high(l) == [l EXCEPT !.cs = "high"]

libresd_hal_card_detect(l) ==
    [l EXCEPT !.log = Append(@, LinkEvent("detect", 0, 0, l.cs))]

libresd_hal_spi_init(l, speed_hz) ==
    [l EXCEPT !.log = Append(@, LinkEvent("spi_init", speed_hz, 0, l.cs))]

\* count bytes of 0xFF with the card deselected
sd_send_clocks(l, count) ==
    [l EXCEPT !.cs = "high", !.log = Append(@, LinkEvent("clocks", count, 0, "high"))]

\* The frame of a command goes out with the card selected, and the card
\* stays selected when the function returns.
libresd_sd_cmd(l, cmd, arg) ==
    [l EXCEPT !.cs = "low", !.log = Append(@, LinkEvent("cmd", cmd, arg, "low"))]

\* CMD55 answered r55, then the command itself unless r55 > 1.
libresd_sd_acmd(l, r55, cmd, arg) ==
    IF r55 > 1 THEN libresd_hal_cs_high(libresd_sd_cmd(l, SD_CMD55, 0))
    ELSE libresd_sd_cmd(libresd_hal_cs_high(libresd_sd_cmd(l, SD_CMD55, 0)), cmd, arg)

AcmdResponse(r55, r) == IF r55 > 1 THEN r55 ELSE r

\* memset(sd, 0, sizeof)
SdFresh ==
    [initialized |-> FALSE, type |-> LIBRESD_CARD_NONE, block_addr |-> FALSE,
     error_count |-> 0, read_count |-> 0, write_count |-> 0]

SdResult(s, l, e) == [sd |-> s, link |-> l, err |-> e]

(* libresd_sd_init.  card holds the card's answers: r0 to CMD0, r8 to CMD8  *)
(* and whether the echo of CMD8 is right, the answers to the iterations of  *)
(* the ACMD41 loop that end before the init timeout (r55 to CMD55, r41 to   *)
(* CMD41, r1 to CMD1), r58 to CMD58 and the CCS bit of the OCR, and the     *)
(* kind of CSD read with CMD9.  The answers to CMD16 and CMD10 change       *)
(* nothing init does.                                                       *)

\* The link goes to the fast rate without the cap.
TargetSpeedUncapped(fast_speed_hz) ==
    IF fast_speed_hz # 0 THEN fast_speed_hz ELSE LIBRESD_SPI_FAST_HZ

TargetSpeed(fast_speed_hz) ==
    IF (IF fast_speed_hz # 0 THEN fast_speed_hz ELSE LIBRESD_SPI_FAST_HZ)
          > LIBRESD_SPI_MAX_HZ
    THEN LIBRESD_SPI_MAX_HZ
    ELSE IF fast_speed_hz # 0 THEN fast_speed_hz ELSE LIBRESD_SPI_FAST_HZ

InitRamp(s, l, fast_speed_hz) ==
    SdResult([s EXCEPT !.initialized = TRUE],
             libresd_hal_spi_init(l, TargetSpeed(fast_speed_hz)), "OK")

\* CMD10, the CID
InitCid(s, l, fast_speed_hz) ==
    InitRamp(s, libresd_hal_cs_high(libresd_sd_cmd(l, SD_CMD10, 0)), fast_speed_hz)

\* CMD9, the CSD: a version 2 CSD of more than 32 GiB makes the card SDXC
InitCsd(s, l, card, fast_speed_hz) ==
    InitCid(IF card.csd = "big" THEN [s EXCEPT !.type = LIBRESD_CARD_SDXC] ELSE s,
            libresd_hal_cs_high(libresd_sd_cmd(l, SD_CMD9, 0)), fast_speed_hz)

\* CMD16 for cards addressed by byte
InitBlockLen(s, l, card, fast_speed_hz) ==
    InitCsd(s,
            IF ~s.block_addr THEN libresd_hal_cs_high(libresd_sd_cmd(l, SD_CMD16, 512))
            ELSE l,
            card, fast_speed_hz)

\* CMD58 for version 2 cards
InitOcr(s, l, card, fast_speed_hz) ==
    IF s.type >= LIBRESD_CARD_SD_V2
    THEN InitBlockLen(IF card.r58 = 0 /\ card.ccs
                      THEN [s EXCEPT !.type = LIBRESD_CARD_SDHC, !.block_addr = TRUE]
                      ELSE s,
                      libresd_hal_cs_high(libresd_sd_cmd(l, SD_CMD58, 0)),
                      card, fast_speed_hz)
    ELSE InitBlockLen(s, l, card, fast_speed_hz)

(* The ACMD41 loop: one iteration per element of tries, the time running   *)
(* out after the last.                                                     *)
RECURSIVE InitAcmdLoop(_, _, _, _, _)

InitRetry(s, l, card, fast_speed_hz, tries) ==
    IF Len(tries) = 1 THEN SdResult(s, l, "TIMEOUT")
    ELSE InitAcmdLoop(s, l, card, fast_speed_hz, Tail(tries))

\* ACMD41 was answered with the illegal-command bit: CMD1
InitMmc(s, l, card, fast_speed_hz, tries) ==
    IF Head(tries).r1 = 0
    THEN InitOcr([s EXCEPT !.type = LIBRESD_CARD_MMC], l, card, fast_speed_hz)
    ELSE InitRetry(s, l, card, fast_speed_hz, tries)

InitTried(s, l, card, fast_speed_hz, tries, r1) ==
    IF r1 = 0 THEN InitOcr(s, l, card, fast_speed_hz)
    ELSE IF HasBit(r1, SD_R1_ILLEGAL_CMD)
    THEN InitMmc(s, libresd_hal_cs_high(libresd_sd_cmd(l, SD_CMD1, 0)), card,
                 fast_speed_hz, tries)
    ELSE InitRetry(s, l, card, fast_speed_hz, tries)

InitAcmdLoop(s, l, card, fast_speed_hz, tries) ==
    InitTried(s,
              libresd_hal_cs_high(
                  libresd_sd_acmd(l, Head(tries).r55, SD_ACMD41,
                                  IF s.type >= LIBRESD_CARD_SD_V2 THEN SD_OCR_CCS ELSE 0)),
              card, fast_speed_hz, tries,
              AcmdResponse(Head(tries).r55, Head(tries).r41))

\* CMD8 has been sent
InitVoltage(s, l, card, fast_speed_hz) ==
    IF card.r8 = SD_R1_IDLE
    THEN IF ~card.echo THEN SdResult(s, libresd_hal_cs_high(l), "VOLTAGE")
         ELSE InitAcmdLoop([s EXCEPT !.type = LIBRESD_CARD_SD_V2], libresd_hal_cs_high(l),
                           card, fast_speed_hz, card.tries)
    ELSE IF HasBit(card.r8, SD_R1_ILLEGAL_CMD)
    THEN InitAcmdLoop([s EXCEPT !.type = LIBRESD_CARD_SD_V1], libresd_hal_cs_high(l),
                      card, fast_speed_hz, card.tries)
    ELSE SdResult(s, libresd_hal_cs_high(l), "INIT")

\* CMD0 has been sent
InitReset(s, l, card, fast_speed_hz) ==
    IF card.r0 # SD_R1_IDLE THEN SdResult(s, libresd_hal_cs_high(l), "INIT")
    ELSE InitVoltage(s, libresd_sd_cmd(libresd_hal_cs_high(l), SD_CMD8, 426), card,
                     fast_speed_hz)

InitDetected(l, present, card, fast_speed_hz) ==
    IF ~present THEN SdResult(SdFresh, l, "NO_CARD")
    ELSE InitReset(SdFresh,
                   libresd_sd_cmd(sd_send_clocks(libresd_hal_spi_init(l, LIBRESD_SPI_INIT_HZ),
                                                 10),
                                  SD_CMD0, 0),
                   card, fast_speed_hz)

\* [sd, link, err]
libresd_sd_init(l, present, card, fast_speed_hz) ==
    InitDetected(libresd_hal_card_detect(l), present, card, fast_speed_hz)

\* sector * 512 in 32 bits
ByteAddress(sector) ==
    IF sector % 8388608 < 4194304 THEN (sector % 8388608) * 512
    ELSE ((sector % 8388608) - 8388608) * 512

\* Every block command takes the byte address.
BlockAddressInBytes(s, sector) == ByteAddress(sector)

\* sd->block_addr ? sector : (sector * 512)
BlockAddress(s, sector) == IF s.block_addr THEN sector ELSE ByteAddress(sector)

\* An exit that deselects the card and counts the error.
SdFailed(s, l, e) ==
    SdResult([s EXCEPT !.error_count = @ + 1], libresd_hal_cs_high(l), e)

\* read_sector, CMD17 sent: the card answers rp.r, then the token rp.token
ReadSingle(s, l, rp) ==
    IF rp.r # 0 THEN SdFailed(s, l, "CMD")
    ELSE IF rp.token # SD_TOKEN_SINGLE
    THEN SdFailed(s, l, IF rp.token = 255 THEN "TIMEOUT" ELSE "SPI")
    ELSE SdResult([s EXCEPT !.read_count = @ + 1], libresd_hal_cs_high(l), "OK")

\* libresd_sd_read_sector, followed over the link
SdReadSector(s, l, sector, rp) ==
    IF ~s.initialized THEN SdResult(s, l, "NOT_MOUNTED")
    ELSE ReadSingle(s, libresd_sd_cmd(l, SD_CMD17, BlockAddress(s, sector)), rp)

\* read_sectors, CMD18 sent: the card answers rp.r, then rp.good blocks
\* and, when there are more to come, the token rp.token
ReadMulti(s, l, count, rp) ==
    IF rp.r # 0 THEN SdResult(s, libresd_hal_cs_high(l), "CMD")
    ELSE SdResult([s EXCEPT !.read_count = @ + (IF rp.good < count THEN rp.good ELSE count)],
                  libresd_hal_cs_high(libresd_sd_cmd(l, SD_CMD12, 0)),
                  IF rp.good >= count THEN "OK"
                  ELSE IF rp.token = 255 THEN "TIMEOUT" ELSE "SPI")

libresd_sd_read_sectors(s, l, sector, count, rp) ==
    IF count = 0 THEN SdResult(s, l, "INVALID_PARAM")
    ELSE IF ~s.initialized THEN SdResult(s, l, "NOT_MOUNTED")
    ELSE IF count = 1 THEN SdReadSector(s, l, sector, rp)
    ELSE ReadMulti(s, libresd_sd_cmd(l, SD_CMD18, BlockAddress(s, sector)), count, rp)

\* write_sector, CMD24 sent: the card answers rp.r, the data response
\* rp.resp, and is ready in time or not
WriteSingle(s, l, rp) ==
    IF rp.r # 0 THEN SdFailed(s, l, "CMD")
    ELSE IF rp.resp % 32 # 5 THEN SdFailed(s, l, "SPI")
    ELSE IF ~rp.ready THEN SdFailed(s, l, "TIMEOUT")
    ELSE SdResult([s EXCEPT !.write_count = @ + 1], libresd_hal_cs_high(l), "OK")

\* libresd_sd_write_sector, followed over the link
SdWriteSector(s, l, write_protect, sector, rp) ==
    IF ~s.initialized THEN SdResult(s, l, "NOT_MOUNTED")
    ELSE IF write_protect THEN SdResult(s, l, "WRITE_PROTECT")
    ELSE WriteSingle(s, libresd_sd_cmd(l, SD_CMD24, BlockAddress(s, sector)), rp)

\* write_sectors, CMD25 sent: the card answers rp.r, takes rp.good blocks
\* and, when there are more to come, fails the next with rp.resp or by
\* staying busy
WriteMulti(s, l, count, rp) ==
    IF rp.r # 0 THEN SdResult(s, libresd_hal_cs_high(l), "CMD")
    ELSE SdResult([s EXCEPT !.write_count = @ + (IF rp.good < count THEN rp.good ELSE count)],
                  libresd_hal_cs_high(l),
                  IF rp.good >= count THEN "OK"
                  ELSE IF rp.resp % 32 # 5 THEN "SPI" ELSE "TIMEOUT")

libresd_sd_write_sectors(s, l, write_protect, sector, count, rp) ==
    IF count = 0 THEN SdResult(s, l, "INVALID_PARAM")
    ELSE IF ~s.initialized THEN SdResult(s, l, "NOT_MOUNTED")
    ELSE IF write_protect THEN SdResult(s, l, "WRITE_PROTECT")
    ELSE IF count = 1 THEN SdWriteSector(s, l, write_protect, sector, rp)
    ELSE WriteMulti(s,
                    libresd_sd_cmd(
                        libresd_hal_cs_high(libresd_sd_acmd(l, rp.r55, SD_ACMD23, count)),
                        SD_CMD25, BlockAddress(s, sector)),
                    count, rp)

\* The erase ends with the card still selected.
EraseEndedSelected(s, l, e) == SdResult(s, l, e)

\* An exit of erase: the card is deselected.
EraseEnded(s, l, e) == SdResult(s, libresd_hal_cs_high(l), e)

\* CMD38 sent
EraseStarted(s, l, rp) ==
    IF rp.r38 # 0 THEN EraseEnded(s, l, "CMD")
    ELSE IF ~rp.ready THEN EraseEnded(s, l, "TIMEOUT")
    ELSE EraseEnded(s, l, "OK")

\* CMD33 sent
EraseRangeEnd(s, l, rp) ==
    IF rp.r33 # 0 THEN EraseEnded(s, l, "CMD")
    ELSE EraseStarted(s, libresd_sd_cmd(libresd_hal_cs_high(l), SD_CMD38, 0), rp)

\* CMD32 sent
EraseRangeStart(s, l, end_sector, rp) ==
    IF rp.r # 0 THEN EraseEnded(s, l, "CMD")
    ELSE EraseRangeEnd(s, libresd_sd_cmd(libresd_hal_cs_high(l), SD_CMD33,
                                         BlockAddress(s, end_sector)), rp)

libresd_sd_erase(s, l, write_protect, start_sector, end_sector, rp) ==
    IF ~s.initialized THEN SdResult(s, l, "NOT_MOUNTED")
    ELSE IF write_protect THEN SdResult(s, l, "WRITE_PROTECT")
    ELSE EraseRangeStart(s, libresd_sd_cmd(l, SD_CMD32, BlockAddress(s, start_sector)),
                         end_sector, rp)

(***************************************************************************)
(* SpecSd: a caller that initializes a card and reads, writes and erases   *)
(* sectors, while the card answers as it likes and may be pulled out       *)
(***************************************************************************)
MaxSdOps == 2

\* Answers to an iteration of the ACMD41 loop (TryReady ends it).
TryBusy == [r55 |-> 1, r41 |-> 1, r1 |-> 1]
TryIllegalMmc == [r55 |-> 1, r41 |-> 5, r1 |-> 0]
TryIllegalBusy == [r55 |-> 1, r41 |-> 5, r1 |-> 1]
TryNoAppCmd == [r55 |-> 5, r41 |-> 0, r1 |-> 0]

TrySeqs ==
    {<<TryReady>>, <<TryBusy, TryReady>>, <<TryBusy>>, <<TryBusy, TryBusy>>,
     <<TryIllegalMmc>>, <<TryIllegalBusy, TryIllegalMmc>>, <<TryIllegalBusy>>,
     <<TryNoAppCmd>>}

Cards ==
    {[SdhcCard EXCEPT !.r8 = r8, !.ccs = ccs] : r8 \in {1, 5, 255}, ccs \in BOOLEAN}
    \cup {[SdhcCard EXCEPT !.tries = t] : t \in TrySeqs}
    \cup {[SdhcCard EXCEPT !.r0 = 255],
          [SdhcCard EXCEPT !.r8 = 9],
          [SdhcCard EXCEPT !.echo = FALSE],
          [SdhcCard EXCEPT !.r58 = 5],
          [SdhcCard EXCEPT !.csd = "big"],
          [SdhcCard EXCEPT !.r58 = 5, !.csd = "big"],
          [SdhcCard EXCEPT !.csd = "none"]}

FastRates == {0, 10000000, 50000000}

SdSectors == {5, 4194303}

\* A slot without a card answers 0xFF to everything.
ReadReplies(present) ==
    IF present
    THEN {[r |-> 0, token |-> 254, good |-> 2], [r |-> 5, token |-> 254, good |-> 2],
          [r |-> 0, token |-> 255, good |-> 0], [r |-> 0, token |-> 9, good |-> 1]}
    ELSE {[r |-> 255, token |-> 255, good |-> 0]}

WriteReplies(present) ==
    IF present
    THEN {[r55 |-> 0, r |-> 0, resp |-> 229, ready |-> TRUE, good |-> 2],
          [r55 |-> 5, r |-> 5, resp |-> 229, ready |-> TRUE, good |-> 2],
          [r55 |-> 0, r |-> 0, resp |-> 235, ready |-> TRUE, good |-> 1],
          [r55 |-> 0, r |-> 0, resp |-> 229, ready |-> FALSE, good |-> 0]}
    ELSE {[r55 |-> 255, r |-> 255, resp |-> 255, ready |-> TRUE, good |-> 0]}

EraseReplies(present) ==
    IF present
    THEN {[r |-> 0, r33 |-> 0, r38 |-> 0, ready |-> TRUE],
          [r |-> 5, r33 |-> 0, r38 |-> 0, ready |-> TRUE],
          [r |-> 0, r33 |-> 5, r38 |-> 0, ready |-> TRUE],
          [r |-> 0, r33 |-> 0, r38 |-> 5, ready |-> TRUE],
          [r |-> 0, r33 |-> 0, r38 |-> 0, ready |-> FALSE]}
    ELSE {[r |-> 255, r33 |-> 255, r38 |-> 255, ready |-> TRUE]}

InitSd ==
    /\ sd = SdFresh
    /\ \E card \in Cards, wp \in BOOLEAN :
          hal = [IdleLink EXCEPT !.card = card, !.write_protect = wp]
    /\ fat = FreshFat
    /\ file = ClosedFile
    /\ last = [op |-> "none", ret |-> "OK"]
    /\ nops = 0
    /\ caller = [script |-> <<>>, maxpos |-> 0]

\* The link as a call finds it.
LinkNow == [cs |-> hal.cs, log |-> <<>>]

SdStep ==
    /\ nops < MaxSdOps
    /\ nops' = nops + 1
    /\ fat' = fat
    /\ file' = file
    /\ caller' = caller

SdReturns(r, call) ==
    /\ sd' = r.sd
    /\ hal' = [hal EXCEPT !.cs = r.link.cs, !.log = r.link.log]
    /\ last' = [ret |-> r.err] @@ call

SdInitOp ==
    /\ SdStep
    /\ \E fast \in FastRates :
          SdReturns(libresd_sd_init(LinkNow, hal.present, hal.card, fast),
                    [op |-> "init", fast |-> fast, present |-> hal.present])

SdReadOp ==
    /\ SdStep
    /\ \E sector \in SdSectors, rp \in ReadReplies(hal.present) :
          SdReturns(SdReadSector(sd, LinkNow, sector, rp),
                    [op |-> "read_sector", sector |-> sector, end_sector |-> sector])

SdReadManyOp ==
    /\ SdStep
    /\ \E sector \in SdSectors, count \in {1, 2}, rp \in ReadReplies(hal.present) :
          SdReturns(libresd_sd_read_sectors(sd, LinkNow, sector, count, rp),
                    [op |-> "read_sectors", sector |-> sector, end_sector |-> sector])

SdWriteOp ==
    /\ SdStep
    /\ \E sector \in SdSectors, rp \in WriteReplies(hal.present) :
          SdReturns(SdWriteSector(sd, LinkNow, hal.write_protect, sector, rp),
                    [op |-> "write_sector", sector |-> sector, end_sector |-> sector])

SdWriteManyOp ==
    /\ SdStep
    /\ \E sector \in SdSectors, count \in {1, 2}, rp \in WriteReplies(hal.present) :
          SdReturns(libresd_sd_write_sectors(sd, LinkNow, hal.write_protect, sector,
                                             count, rp),
                    [op |-> "write_sectors", sector |-> sector, end_sector |-> sector])

SdEraseOp ==
    /\ SdStep
    /\ \E rp \in EraseReplies(hal.present) :
          SdReturns(libresd_sd_erase(sd, LinkNow, hal.write_protect, 5, 4194303, rp),
                    [op |-> "erase", sector |-> 5, end_sector |-> 4194303])

\* The card is pulled out of the slot, or pushed in.
CardMovedOp ==
    /\ hal' = [hal EXCEPT !.present = ~@]
    /\ UNCHANGED <<sd, fat, file, last, nops, caller>>

NextSd ==
    \/ SdInitOp
    \/ SdReadOp
    \/ SdReadManyOp
    \/ SdWriteOp
    \/ SdWriteManyOp
    \/ SdEraseOp
    \/ CardMovedOp

SpecSd == InitSd /\ [][NextSd]_vars

\* ---------------------------------------------------------------------
\* Properties of the card protocol
\* ---------------------------------------------------------------------
DataOps == {"read_sector", "read_sectors", "write_sector", "write_sectors", "erase"}

\* The numbers of the commands in a log, in order.
CmdEvents(log) == SelectSeq(log, LAMBDA ev : ev.e = "cmd")

CmdsOf(log) == [i \in 1..Len(CmdEvents(log)) |-> CmdEvents(log)[i].n]

\* The commands init has to end with, given whether the card answered CMD8
\* as a version 2 card and was not found to be an MMC, and how it is
\* addressed.
InitTail(v2, block_addr) ==
    (IF v2 THEN <<58>> ELSE <<>>) \o (IF block_addr THEN <<>> ELSE <<16>>) \o <<9, 10>>

\* c is 0, 8, the commands of the ACMD41 loop (55, 41 only after 55, and
\* 1), then tail.
InitCommandsInOrder(c, tail) ==
    /\ Len(c) >= 3 + Len(tail)
    /\ SubSeq(c, 1, 3) = <<0, 8, 55>>
    /\ SubSeq(c, Len(c) - Len(tail) + 1, Len(c)) = tail
    /\ \A i \in 3..(Len(c) - Len(tail)) :
          /\ c[i] \in {55, 41, 1}
          /\ c[i] = 41 => c[i - 1] = 55

\* C16: a run of init that returns OK has checked the card's presence,
\* brought the link up at no more than 400 kHz, sent at least 80 clocks
\* with the card deselected, and then sent CMD0, CMD8, the commands of the
\* ACMD41 loop, CMD58 (version 2 cards only), CMD16 (cards addressed by
\* byte only), CMD9 and CMD10, in this order, before it raised the link to
\* the requested rate (the default rate for 0), capped at 25 MHz, and set
\* initialized; a run that fails returns NO_CARD, INIT, VOLTAGE or TIMEOUT
\* as the step that failed indicates and leaves initialized false.
C16_InitOrder ==
    last.op = "init" =>
        /\ last.ret = "OK" =>
              /\ sd.initialized
              /\ Len(hal.log) >= 4
              /\ hal.log[1].e = "detect"
              /\ hal.log[2].e = "spi_init" /\ hal.log[2].n <= 400000
              /\ hal.log[3].e = "clocks" /\ hal.log[3].n * 8 >= 80
              /\ hal.log[3].cs = "high"
              /\ \A i \in 4..(Len(hal.log) - 1) : hal.log[i].e = "cmd"
              /\ InitCommandsInOrder(
                    CmdsOf(hal.log),
                    InitTail(hal.card.r8 = 1 /\ sd.type # LIBRESD_CARD_MMC, sd.block_addr))
              /\ hal.log[Len(hal.log)].e = "spi_init"
              /\ hal.log[Len(hal.log)].n
                    = (IF last.fast = 0 THEN 4000000
                       ELSE IF last.fast > 25000000 THEN 25000000 ELSE last.fast)
        /\ last.ret # "OK" =>
              /\ ~sd.initialized
              /\ last.ret \in {"NO_CARD", "INIT", "VOLTAGE", "TIMEOUT"}
              /\ last.ret = "NO_CARD" <=> ~last.present
              /\ last.ret = "INIT"
                    <=> /\ last.present
                        /\ \/ hal.card.r0 # 1
                           \/ hal.card.r8 # 1 /\ ~HasBit(hal.card.r8, 4)
              /\ last.ret = "VOLTAGE"
                    <=> last.present /\ hal.card.r0 = 1 /\ hal.card.r8 = 1 /\ ~hal.card.echo
              /\ last.ret = "TIMEOUT" => CmdsOf(hal.log)[Len(CmdsOf(hal.log))] \in {55, 41, 1}

\* C16 witness: init asked for 50 MHz has returned OK on a high-capacity
\* card that was busy at first, with the link at 25 MHz.
C16_Witness ==
    /\ last.op = "init"
    /\ last.ret = "OK"
    /\ last.fast = 50000000
    /\ sd.type = LIBRESD_CARD_SDHC
    /\ CmdsOf(hal.log) = <<0, 8, 55, 41, 55, 41, 58, 9, 10>>
    /\ hal.log[Len(hal.log)].n = 25000000

\* C17: whenever no card operation is running, the chip-select line is
\* deasserted: init, the reads, the writes and erase deselect the card
\* before they return, with OK or with an error.
C17_ChipSelectDeasserted == hal.cs = "high"

\* C17 witness: erase has failed at CMD38 and the card is deselected.
C17_Witness ==
    /\ last.op = "erase"
    /\ last.ret = "CMD"
    /\ CmdsOf(hal.log) = <<32, 33, 38>>
    /\ hal.cs = "high"

\* C18: a read, write or erase that fails with CMD, TIMEOUT or SPI has
\* raised the card's error counter.
C18_ErrorsAreCounted ==
    [][ (last'.op \in DataOps /\ last'.ret \in {"CMD", "TIMEOUT", "SPI"})
        => sd'.error_count > sd.error_count ]_vars

\* C19: a read, write or erase called on an initialized card while no card
\* is present sends no command, fails and leaves initialized false.
C19_RemovalIsDetected ==
    [][ (last'.op \in DataOps /\ nops' = nops + 1 /\ sd.initialized /\ ~hal.present)
        => /\ CmdsOf(hal'.log) = <<>>
           /\ last'.ret # "OK"
           /\ ~sd'.initialized ]_vars

\* C20: the argument of every read, write and erase-range command is the
\* sector index when the card is addressed by block and the sector index
\* times 512 when it is not.
C20_AddressArgument ==
    last.op \in DataOps =>
        \A i \in 1..Len(hal.log) :
            /\ (hal.log[i].e = "cmd" /\ hal.log[i].n \in {17, 18, 24, 25, 32})
                  => hal.log[i].arg
                        = (IF sd.block_addr THEN last.sector ELSE last.sector * 512)
            /\ (hal.log[i].e = "cmd" /\ hal.log[i].n = 33)
                  => hal.log[i].arg
                        = (IF sd.block_addr THEN last.end_sector
                           ELSE last.end_sector * 512)

\* C20 witness: a multi-sector write to sector 5 of a card addressed by
\* byte has sent CMD25 with argument 2560.
C20_Witness ==
    /\ last.op = "write_sectors"
    /\ last.ret = "OK"
    /\ ~sd.block_addr
    /\ \E i \in 1..Len(hal.log) :
          hal.log[i].e = "cmd" /\ hal.log[i].n = 25 /\ hal.log[i].arg = 2560

\* ---------------------------------------------------------------------
\* Properties of the file layer
\* ---------------------------------------------------------------------

\* The FAT entry of cluster c as the driver reads it in this state.
EntryNow(f, card, c) == libresd_fat_read_entry(f, card, c).value

\* The FAT entry of cluster c as FAT copy i on the card holds it.
EntryOnCard(f, card, i, c) ==
    libresd_fat_read_entry(
        [f EXCEPT !.fat_buffer_sector = NO_SECTOR,
                  !.fat_start_sector = @ + i * f.sectors_per_fat],
        card, c).value

\* The clusters reached from c by following FAT entries, c first, up to the
\* first entry that does not name a data cluster.
RECURSIVE ChainFrom(_, _, _, _)
ChainFrom(f, card, c, fuel) ==
    IF c < 2 \/ c >= f.cluster_count + 2 \/ fuel = 0 THEN <<>>
    ELSE <<c>> \o ChainFrom(f, card, EntryNow(f, card, c), fuel - 1)

CeilDiv(a, b) == (a + b - 1) \div b

ScriptTotal == SumSeq(caller.script.pieces)

\* C1: in a round-trip script every call succeeds, and reading the reopened
\* file to its end returns exactly the bytes written, the reopened size
\* being their number.
C1_WriteThenReadRoundTrip ==
    caller.script.kind = "roundtrip" =>
        /\ last.op \in {"open", "write", "close"} => last.ret = "OK"
        /\ last.op = "read_all" =>
              /\ last.data = DataBytes(ScriptTotal)
              /\ file.file_size = ScriptTotal

\* C8: when a round-trip script has created the file, written n > 0 bytes
\* and closed it, the chain from the file's first cluster has exactly
\* ceil(n / cluster_size) clusters and its last entry is the end-of-chain
\* value of the FAT type.
C8_AllocationIsExact ==
    ( /\ caller.script.kind = "roundtrip"
      /\ last.op = "close"
      /\ nops = Len(caller.script.pieces) + 2 )
    => LET chain == ChainFrom(fat, sd, file.first_cluster, MaxWalk)
       IN  /\ Len(chain) = CeilDiv(ScriptTotal, fat.cluster_size)
           /\ EntryNow(fat, sd, chain[Len(chain)]) = EocMark(fat)

\* C10: when a sparse script (create, seek to n, write k bytes, close,
\* reopen) has read the file to its end, the size is n + k and the bytes
\* at 0..n-1 are all zero.
C10_SeekGapReadsZero ==
    (caller.script.kind = "sparse" /\ last.op = "read_all")
    => /\ file.file_size = caller.script.n + caller.script.k
       /\ Len(last.data) = caller.script.n + caller.script.k
       /\ \A i \in 1..caller.script.n : i <= Len(last.data) => last.data[i] = 0

\* C5: when unlink(path) has returned OK, the path no longer exists and every
\* entry of the chain the file had is 0 in every FAT copy on the card.
C5_UnlinkFreesChainInEveryCopy ==
    [][ (last'.op = "unlink" /\ last'.ret = "OK")
        => /\ ~libresd_fat_exists(fat', sd', last'.path)
           /\ LET was == ChainFrom(fat, sd,
                            fat_resolve_path(fat, sd, last'.path).info.first_cluster,
                            MaxWalk)
              IN  \A k \in 1..Len(was) :
                     \A i \in 0..(fat.num_fats - 1) :
                        EntryOnCard(fat', sd', i, was[k]) = FAT_FREE ]_vars

\* C4 (as stated): after any read the handle's position is at most the file
\* size, and after any write the file size is at least the largest position
\* the handle has had since it was opened.
C4_PositionWithinSizeAlways ==
    /\ (file.is_open /\ last.op = "read") => file.position <= file.file_size
    /\ (file.is_open /\ last.op = "write") => file.file_size >= caller.maxpos

\* C4 restricted to transfers: after any read that returns OK the handle's
\* position is at most the file size, and after any write that takes at least
\* one byte the file size is at least the position the write ended at.  A
\* read whose position + size wraps in 32 bits (see C11) violates the first
\* conjunct.
C4_PositionWithinSizeAfterTransfer ==
    /\ (last.op = "read" /\ last.ret = "OK") => file.position <= file.file_size
    /\ (last.op = "write" /\ last.ret = "OK" /\ last.total_written > 0)
          => file.file_size >= file.position

\* A read that had to be cut short at the end of the file has returned OK on
\* a handle that can also write.
C4_Witness ==
    /\ last.op = "read"
    /\ last.ret = "OK"
    /\ Len(last.data) < last.size
    /\ file.position = file.file_size
    /\ HasBit(file.mode, LIBRESD_WRITE)

\* C12: when mkdir(path) and then rmdir(path) have both returned OK, a scan
\* of the parent directory yields the same set of (name, cluster) pairs as
\* before the mkdir, the path no longer resolves, and another rmdir(path)
\* returns NOT_FOUND.
C12_MkdirRmdirRestoresParent ==
    [][ ( /\ last.op = "mkdir" /\ last.ret = "OK"
          /\ last'.op = "rmdir" /\ last'.ret = "OK"
          /\ last'.path = last.path )
        => /\ ParentListing(fat', sd', last'.path) = caller.listing
           /\ ~libresd_fat_exists(fat', sd', last'.path)
           /\ libresd_fat_rmdir(fat', sd', last'.path).err = "NOT_FOUND" ]_vars

\* C12 witness: a directory made in the empty directory /p has been removed
\* again, and /p lists "." and ".." only.
C12_Witness ==
    /\ last.op = "rmdir"
    /\ last.ret = "OK"
    /\ last.path = PathPD
    /\ caller.listing = {<<<<46>>, fat_resolve_path(fat, sd, PathP).cluster>>, <<<<46, 46>>, 0>>}
    /\ ParentListing(fat, sd, PathPD) = caller.listing

\* C11: a read that begins at or after file_size returns EOF with no bytes
\* and leaves position and current cluster as they were, and a read that
\* begins before file_size transfers no byte beyond file_size.
C11_ReadBoundedByFileSize ==
    [][ last'.op = "read" =>
          /\ file.position >= file.file_size
                => /\ last'.ret = "EOF"
                   /\ last'.data = <<>>
                   /\ file'.position = file.position
                   /\ file'.current_cluster = file.current_cluster
          /\ file.position < file.file_size
                => file.position + Len(last'.data) <= file.file_size ]_vars

\* C7: after truncate at position p <= size has returned OK, the file size
\* is p, the chain cluster at index p / cluster_size holds the end-of-chain
\* value, every cluster formerly beyond it is free, and no entry of the
\* remaining chain names a freed cluster.
C7_TruncateCutsChainAtPosition ==
    [][ (last'.op = "truncate" /\ last'.ret = "OK" /\ file.position <= file.file_size)
        => LET was == ChainFrom(fat, sd, file.first_cluster, MaxWalk)
               keep == (file.position \div fat.cluster_size) + 1
               freed == {was[j] : j \in (keep + 1)..Len(was)}
           IN  /\ file'.file_size = file.position
               /\ keep <= Len(was)
                     => libresd_fat_is_eoc(fat', EntryNow(fat', sd', was[keep]))
               /\ \A c \in freed : EntryNow(fat', sd', c) = FAT_FREE
               /\ \A j \in 1..Len(was) :
                     (j <= keep) => EntryNow(fat', sd', was[j]) \notin freed ]_vars

\* C9: after seek(n, Set) has returned OK, a following seek(0, Cur) leaves
\* tell() = n on a handle open for writing and tell() = min(n, file_size) on
\* a read-only handle.
C9_SeekSetThenTell ==
    [][ ( /\ last'.op = "seek"
          /\ last'.whence = LIBRESD_SEEK_SET
          /\ last'.ret = "OK" )
        => LET again == libresd_fat_seek(fat', sd', file', 0, LIBRESD_SEEK_CUR)
               n == last'.offset
           IN  /\ again.err = "OK"
               /\ libresd_fat_tell(again.file)
                     = IF HasBit(file.mode, LIBRESD_WRITE) THEN n
                       ELSE IF n < file.file_size THEN n ELSE file.file_size ]_vars

\* The first cluster and the size in the directory entry of the handle fl
\* as the card holds them.
EntryClusterOnCard(card, fl) ==
    READ16(libresd_sd_read_sector(card, fl.dir_sector), fl.dir_offset + 20) * 65536
        + READ16(libresd_sd_read_sector(card, fl.dir_sector), fl.dir_offset + 26)

EntrySizeOnCard(card, fl) ==
    READ32(libresd_sd_read_sector(card, fl.dir_sector), fl.dir_offset + 28)

\* C21: when close has returned OK on a handle opened with WRITE or with
\* APPEND, the card holds the handle's data buffer, and the directory entry
\* of the file holds the handle's first cluster and file size.
C21_ClosePersistsMetadata ==
    ( /\ last.op = "close"
      /\ last.ret = "OK"
      /\ HasBit(file.mode, LIBRESD_WRITE) \/ HasBit(file.mode, LIBRESD_APPEND) )
    => /\ file.buffer_sector # NO_SECTOR
            => libresd_sd_read_sector(sd, file.buffer_sector) = file.buffer
       /\ EntryClusterOnCard(sd, file) = file.first_cluster
       /\ EntrySizeOnCard(sd, file) = file.file_size

(***************************************************************************)
(* Properties of open, path resolution, rename and rmdir on the tree       *)
(***************************************************************************)
\* The step neither wrote the card nor moved the allocator, and the handle
\* it returned is not open.
OpenLeftVolume ==
    /\ sd' = sd
    /\ fat'.free_clusters = fat.free_clusters
    /\ fat'.last_alloc_cluster = fat.last_alloc_cluster
    /\ ~file'.is_open

\* C22: on the volume as it came, open of an existing directory returns
\* NOT_FILE, open of an existing file with EXCL and CREATE returns EXISTS
\* (TRUNCATE set or not), open of a missing path without CREATE returns
\* NOT_FOUND, and in each case the card and the allocator are as before and
\* the handle is not open.
C22_OpenErrorsLeaveVolume ==
    [][(nops = 0 /\ last'.op = "open") =>
          /\ last'.path \in TreeDirs => (last'.ret = "NOT_FILE" /\ OpenLeftVolume)
          /\ ( /\ last'.path \in TreeFiles
               /\ HasBit(last'.mode, LIBRESD_EXCL)
               /\ HasBit(last'.mode, LIBRESD_CREATE) )
                => (last'.ret = "EXISTS" /\ OpenLeftVolume)
          /\ (last'.path \in TreeMissing /\ ~HasBit(last'.mode, LIBRESD_CREATE))
                => (last'.ret = "NOT_FOUND" /\ OpenLeftVolume)]_vars

\* C23: a lookup of "/d/e/..", "/d/e/../e" or "/d/e/../.." on the volume as
\* it came finds the directory that "/d", "/d/e" or "/" names: it returns
\* OK with that directory's first cluster.
C23_DotDotReturnsToParent ==
    ( /\ nops = 1
      /\ last.op = "stat"
      /\ last.path \in {PathDEUp, PathDEUpE, PathDEUpUp} )
    => /\ last.ret = "OK"
       /\ last.first_cluster =
             fat_resolve_path(fat, sd, TreeMeaning(last.path)).info.first_cluster

\* The entry a path resolved to: first cluster, size and attributes.
EntryFacts(r) == <<r.info.first_cluster, r.info.size, r.info.attr>>

\* C24: after a rename that returned OK the new path resolves to the entry
\* the old path resolved to before (same first cluster, size, attributes),
\* and the old path resolves no more; also for an entry with a long name.
C24_RenameMovesEntry ==
    [][(last'.op = "rename" /\ last'.ret = "OK") =>
          /\ fat_resolve_path(fat', sd', last'.to).err = "OK"
          /\ EntryFacts(fat_resolve_path(fat', sd', last'.to))
                = EntryFacts(fat_resolve_path(fat, sd, last'.path))
          /\ fat_resolve_path(fat', sd', last'.path).err # "OK"]_vars

\* C25: on the volume as it came, where /d holds the directory e and /d/e
\* holds the file ".x", rmdir of either returns DIR_NOT_EMPTY and leaves the
\* card (entry and chain) and the free count as they were.
C25_RmdirKeepsNonEmpty ==
    [][(nops = 0 /\ last'.op = "rmdir" /\ last'.path \in {PathD, PathDE}) =>
          /\ last'.ret = "DIR_NOT_EMPTY"
          /\ sd' = sd
          /\ fat'.free_clusters = fat.free_clusters]_vars

(***************************************************************************)
(* SpecStamp: a date or a time of the clock is packed into the 16-bit      *)
(* field of an entry (libresd_file.c:369-371) and readdir unpacks the      *)
(* field (libresd_fat.c:753-766)                                           *)
(***************************************************************************)
\* Dates and times a FAT entry can represent; seconds count in twos.
StampYears == 1980 .. (1980 + 127)
StampMonths == 1 .. 12
StampDays == 1 .. 31
StampHours == 0 .. 23
StampMinutes == 0 .. 59
StampSeconds == {2 * k : k \in 0 .. 29}

InitStamp ==
    /\ sd = SdFresh
    /\ fat = FreshFat
    /\ file = ClosedFile
    /\ last = [op |-> "none", ret |-> "OK"]
    /\ nops = 0
    /\ caller = [script |-> <<>>, maxpos |-> 0]
    /\ hal = IdleLink

StampStep ==
    /\ nops' = nops + 1
    /\ UNCHANGED <<sd, fat, file, caller, hal>>

\* entry->create_date = LIBRESD_FAT_DATE(dt.year, dt.month, dt.day)
StampDateOp ==
    /\ last.op = "none"
    /\ StampStep
    /\ \E y \in StampYears, m \in StampMonths, d \in StampDays :
          last' = [op |-> "date", ret |-> "OK", year |-> y, month |-> m, day |-> d,
                   field |-> LIBRESD_FAT_DATE(y, m, d) % 65536]

\* entry->create_time = LIBRESD_FAT_TIME(dt.hour, dt.minute, dt.second)
StampTimeOp ==
    /\ last.op = "none"
    /\ StampStep
    /\ \E h \in StampHours, m \in StampMinutes, x \in StampSeconds :
          last' = [op |-> "time", ret |-> "OK", hour |-> h, minute |-> m, second |-> x,
                   field |-> LIBRESD_FAT_TIME(h, m, x) % 65536]

\* info->created.year = LIBRESD_FAT_YEAR(entry->create_date), month, day
ParseDateOp ==
    /\ last.op = "date"
    /\ StampStep
    /\ last' = [last EXCEPT !.op = "date_parsed",
                            !.year = LIBRESD_FAT_YEAR(last.field),
                            !.month = LIBRESD_FAT_MONTH(last.field),
                            !.day = LIBRESD_FAT_DAY(last.field)]

\* info->created.hour = LIBRESD_FAT_HOUR(entry->create_time), minute, second
ParseTimeOp ==
    /\ last.op = "time"
    /\ StampStep
    /\ last' = [last EXCEPT !.op = "time_parsed",
                            !.hour = LIBRESD_FAT_HOUR(last.field),
                            !.minute = LIBRESD_FAT_MIN(last.field),
                            !.second = LIBRESD_FAT_SEC(last.field)]

NextStamp ==
    \/ StampDateOp
    \/ StampTimeOp
    \/ ParseDateOp
    \/ ParseTimeOp

SpecStamp == InitStamp /\ [][NextStamp]_vars

\* C26: for every year 1980..2107, month 1..12, day 1..31, hour 0..23,
\* minute 0..59 and even second 0..58, the fields readdir unpacks from the
\* packed 16-bit date or time are the fields that were packed.
C26_StampRoundTrip ==
    [][/\ ParseDateOp =>
             <<last'.year, last'.month, last'.day>> = <<last.year, last.month, last.day>>
       /\ ParseTimeOp =>
             <<last'.hour, last'.minute, last'.second>>
                = <<last.hour, last.minute, last.second>>]_vars

\* The last even second of the day has been packed and unpacked.
C26_Witness ==
    /\ last.op = "time_parsed"
    /\ <<last.hour, last.minute, last.second>> = <<23, 59, 58>>
    /\ last.field = 23 * 2048 + 59 * 32 + 29

(***************************************************************************)
(* SpecAlloc: the cluster allocator and the free count on small volumes    *)
(* that are full or nearly full                                            *)
(***************************************************************************)
\* The FAT12 volume of 20 clusters (2..21) with BIG.BIN on all of them, on
\* all but cluster 21, and on all but clusters 20 and 21.
ImgFull12 == Image([FmtSmall12 EXCEPT !.used = 20])
ImgLast12 == Image([FmtSmall12 EXCEPT !.used = 19])
ImgTwo12 == Image([FmtSmall12 EXCEPT !.used = 18])

AllocImages == {ImgFull12, ImgLast12, ImgTwo12}

InitAlloc ==
    /\ \E img \in AllocImages :
          /\ sd = CardOf(img)
          /\ fat = Mounted(img)
    /\ file = ClosedFile
    /\ last = [op |-> "mount", ret |-> "OK"]
    /\ nops = 0
    /\ caller = [script |-> <<>>, maxpos |-> 0]
    /\ hal = IdleLink

\* read_entry while the card rejects the reads of the sectors in failing:
\* `return 0` with the buffer as it was.
ReadEntryOrFail(f, card, cluster, failing) ==
    IF /\ f.fat_buffer_sector # f.fat_start_sector + (FatOffset(f, cluster) \div 512)
       /\ (f.fat_start_sector + (FatOffset(f, cluster) \div 512)) \in failing
    THEN [fat |-> f, value |-> 0]
    ELSE IF /\ f.fs_type = LIBRESD_FS_FAT12
            /\ FatOffset(f, cluster) % 512 = 511
            /\ (f.fat_start_sector + (FatOffset(f, cluster) \div 512) + 1) \in failing
    THEN [fat |-> libresd_fat_read_entry(f, card, cluster).fat, value |-> 0]
    ELSE libresd_fat_read_entry(f, card, cluster)

\* get_free's loop over the clusters from c up to stop.  Returns [fat, free].
RECURSIVE GetFreeLoop(_, _, _, _, _, _)
GetFreeCounted(r, card, c, stop, free, failing) ==
    GetFreeLoop(r.fat, card, c + 1, stop,
                IF r.value = FAT_FREE THEN free + 1 ELSE free, failing)

GetFreeLoop(f, card, c, stop, free, failing) ==
    IF c < stop
    THEN GetFreeCounted(ReadEntryOrFail(f, card, c, failing), card, c, stop, free, failing)
    ELSE [fat |-> f, free |-> free]

\* The whole loop, evaluated in runs of FreeRun clusters.
FreeRun == 16

RECURSIVE GetFreeRuns(_, _, _, _, _)
GetFreeRunDone(r, card, c, failing) == GetFreeRuns(r.fat, card, c, r.free, failing)

GetFreeRuns(f, card, c, free, failing) ==
    IF c < f.cluster_count + 2
    THEN GetFreeRunDone(
             GetFreeLoop(f, card, c,
                         IF c + FreeRun < f.cluster_count + 2 THEN c + FreeRun
                         ELSE f.cluster_count + 2,
                         free, failing),
             card, c + FreeRun, failing)
    ELSE [fat |-> f, free |-> free]

GetFreeScanned(r) ==
    [fat |-> [r.fat EXCEPT !.free_clusters = r.free],
     bytes |-> r.free * r.fat.cluster_size]

\* Returns [fat, bytes].
libresd_fat_get_free(f, card, failing) ==
    IF ~f.mounted THEN [fat |-> f, bytes |-> 0]
    ELSE IF f.free_clusters = FREE_UNKNOWN
    THEN GetFreeScanned(GetFreeRuns(f, card, 2, 0, failing))
    ELSE [fat |-> f, bytes |-> f.free_clusters * f.cluster_size]

AllocNextOp ==
    /\ FatStep
    /\ \E prev \in {0, 2} :
          AllocClusterReturns(libresd_fat_alloc_cluster(fat, sd, prev), prev)

AllocFreeOp ==
    /\ FatStep
    /\ \E c \in {20, 21} :
          FreeChainReturns(libresd_fat_free_chain(fat, sd, c), c)

GetFreeReturns(r, failing) ==
    FatReturns(r, sd, [op |-> "get_free", ret |-> "OK", failing |-> failing,
                       value |-> r.bytes])

GetFreeOp ==
    /\ FatStep
    /\ \E failing \in {{}, {fat.fat_start_sector}} :
          GetFreeReturns(libresd_fat_get_free(fat, sd, failing), failing)

NextAlloc ==
    \/ AllocNextOp
    \/ AllocFreeOp
    \/ GetFreeOp

SpecAlloc == InitAlloc /\ [][NextAlloc]_vars

\* The clusters whose FAT entry is 0.
FreeSet(f, card) ==
    {c \in 2..(f.cluster_count + 1) : libresd_fat_read_entry(f, card, c).value = FAT_FREE}

\* The first of them after cluster `from`, wrapping from the last to 2.
CyclicFirst(free, from) ==
    IF \E c \in free : c > from
    THEN SetMin({c \in free : c > from})
    ELSE SetMin(free)

\* C27: whenever some cluster is free, alloc_cluster returns the first free
\* cluster in cyclic order after last_alloc_cluster (that one itself being
\* the last one examined), a cluster of 2..cluster_count+1; its entry is the
\* end-of-chain mark, a previous cluster given points at it,
\* last_alloc_cluster is the result and a known free count is one less.
C27_AllocFirstFree ==
    [][(last'.op = "alloc_cluster" /\ FreeSet(fat, sd) # {}) =>
          /\ last'.ret = "OK"
          /\ last'.value = CyclicFirst(FreeSet(fat, sd), fat.last_alloc_cluster)
          /\ libresd_fat_read_entry(fat', sd', last'.value).value = EocMark(fat)
          /\ last'.cluster >= 2 =>
                libresd_fat_read_entry(fat', sd', last'.cluster).value = last'.value
          /\ fat'.last_alloc_cluster = last'.value
          /\ fat'.free_clusters =
                IF fat.free_clusters = FREE_UNKNOWN THEN FREE_UNKNOWN
                ELSE fat.free_clusters - 1]_vars

\* C28: when no cluster is free, alloc_cluster returns, with no cluster,
\* and leaves the card, the FAT entries, last_alloc_cluster and the free
\* count as they were, whatever last_alloc_cluster is.
C28_AllocFullTerminates ==
    [][(last'.op = "alloc_cluster" /\ FreeSet(fat, sd) = {}) =>
          /\ last'.ret = "OK"
          /\ last'.value = 0
          /\ sd' = sd
          /\ FreeSet(fat', sd') = {}
          /\ fat'.last_alloc_cluster = fat.last_alloc_cluster
          /\ fat'.free_clusters = fat.free_clusters]_vars

\* C30: a get_free that finds the free count unknown and whose scan meets
\* a FAT sector the card does not deliver leaves the count unknown.
C30_FailedScanKeepsUnknown ==
    [][( /\ last'.op = "get_free"
         /\ fat.free_clusters = FREE_UNKNOWN
         /\ last'.failing # {}
         /\ fat.fat_buffer_sector \notin last'.failing )
       => fat'.free_clusters = FREE_UNKNOWN]_vars

(***************************************************************************)
(* SpecDiskFull: a caller that extends BIG.BIN on the small volumes that   *)
(* have no, one or two clusters left                                       *)
(***************************************************************************)
MaxFullOps == 3

FullModes == {LIBRESD_APPEND, LIBRESD_READ + LIBRESD_WRITE}

FullSizes == {5, 600, 1500}

FullStep == Returned /\ nops < MaxFullOps /\ nops' = nops + 1

FullOpenOp ==
    /\ FullStep
    /\ ~file.is_open
    /\ \E mode \in FullModes : DoOpen(PathBig, mode)

FullWriteOp == FullStep /\ file.is_open /\ \E n \in FullSizes : DoWrite(DataBytes(n))

FullSeekEndOp == FullStep /\ file.is_open /\ DoSeek(0, LIBRESD_SEEK_END)

FullCloseOp == FullStep /\ file.is_open /\ DoClose

NextDiskFull ==
    \/ FullOpenOp
    \/ FullWriteOp
    \/ FullSeekEndOp
    \/ FullCloseOp

SpecDiskFull == InitAlloc /\ [][NextDiskFull]_vars

\* C29: a write that returned OK has transferred every byte it was given; a
\* write cut short because no cluster could be allocated does not return OK.
C29_ShortWriteIsAnError ==
    (last.op = "write" /\ last.ret = "OK") => last.total_written = last.size

(***************************************************************************)
(* Properties of unlink and readdir on entries with long names             *)
(***************************************************************************)
\* Offsets of the slots of a directory sector.
SlotOffsets == {32 * k : k \in 0..15}

\* The LFN slots right before the entry at off: every slot from one of them
\* up to the entry is an LFN slot.
LfnSlotsBefore(sector, off) ==
    {o \in SlotOffsets :
        /\ o < off
        /\ \A q \in SlotOffsets :
              (q >= o /\ q < off) => sector[q + 11] = LIBRESD_ATTR_LFN}

\* The entry r resolved to and its LFN slots are all marked 0xE5 on card.
NameIsFreed(card, before, r) ==
    /\ libresd_sd_read_sector(card, r.dir_sector)[r.dir_offset] = DIRENT_FREE
    /\ \A o \in LfnSlotsBefore(libresd_sd_read_sector(before, r.dir_sector), r.dir_offset) :
          libresd_sd_read_sector(card, r.dir_sector)[o] = DIRENT_FREE

\* C31: after an unlink that returned OK, the first byte of the file's 8.3
\* entry and of every LFN slot right before it is 0xE5.
C31_UnlinkFreesLongName ==
    [][(last'.op = "unlink" /\ last'.ret = "OK") =>
          NameIsFreed(sd', sd, fat_resolve_path(fat, sd, last'.path))]_vars

\* The 11 name bytes of the entry at off.
ShortNameAt(sector, off) == [i \in 1..11 |-> sector[off + i - 1]]

\* The n slots before the entry at off are its long name: LFN slots with
\* ordinals 1..n counted back from the entry, the flag 0x40 on the n-th and
\* on no other, each carrying the checksum of the entry's 8.3 name.
LfnRunOf(sector, off, n) ==
    /\ off - FAT_DIRENT_SIZE * n >= 0
    /\ \A k \in 1..n :
          /\ sector[off - FAT_DIRENT_SIZE * k + 11] = LIBRESD_ATTR_LFN
          /\ sector[off - FAT_DIRENT_SIZE * k] = k + (IF k = n THEN 64 ELSE 0)
          /\ sector[off - FAT_DIRENT_SIZE * k + 13]
                = LfnChecksum(ShortNameAt(sector, off), 11)

LfnRunIsComplete(sector, off) == \E n \in 1..15 : LfnRunOf(sector, off, n)

\* The entry r was reported under a name that is not its 8.3 name.
ReportedLong(card, r) ==
    /\ r.err = "OK"
    /\ r.set
    /\ r.info.name #
          fat_name_to_str(ShortNameAt(libresd_sd_read_sector(card, r.dir_sector),
                                      r.dir_offset))

LongNameIsWhole(card, r) ==
    ReportedLong(card, r)
        => LfnRunIsComplete(libresd_sd_read_sector(card, r.dir_sector), r.dir_offset)

\* C32: an entry that readdir reports under its long name, so that the
\* resolver finds it as "longname.txt", has a complete LFN run right before
\* it whose checksum is that of the entry's 8.3 name.
C32_NoPartialLongName == LongNameIsWhole(sd, fat_resolve_path(fat, sd, PathLongName))

(***************************************************************************)
(* Properties of the card type init records                                *)
(***************************************************************************)
\* The iteration of the ACMD41 loop that ended it: the first whose ACMD41
\* was answered 0, or was answered illegal-command with CMD1 answered 0.
TryEnds(t) ==
    \/ AcmdResponse(t.r55, t.r41) = 0
    \/ HasBit(AcmdResponse(t.r55, t.r41), SD_R1_ILLEGAL_CMD) /\ t.r1 = 0

EndingTry(tries) == tries[SetMin({i \in 1..Len(tries) : TryEnds(tries[i])})]

\* The card answered as an MMC, as a version 2 card, as a high-capacity card.
AnsweredMmc(card) ==
    AcmdResponse(EndingTry(card.tries).r55, EndingTry(card.tries).r41) # 0

AnsweredV2(card) == card.r8 = SD_R1_IDLE /\ card.echo

AnsweredHighCapacity(card) ==
    AnsweredV2(card) /\ ~AnsweredMmc(card) /\ card.r58 = 0 /\ card.ccs

\* The type the answers stand for.
AnsweredType(card) ==
    IF AnsweredHighCapacity(card)
    THEN IF card.csd = "big" THEN LIBRESD_CARD_SDXC ELSE LIBRESD_CARD_SDHC
    ELSE IF AnsweredMmc(card) THEN LIBRESD_CARD_MMC
    ELSE IF AnsweredV2(card) THEN LIBRESD_CARD_SD_V2
    ELSE LIBRESD_CARD_SD_V1

\* C33: after an init that returned OK the type is SD v1 for a card that
\* rejected CMD8, SD v2 for one that echoed it, MMC for one whose ACMD41 was
\* rejected and whose CMD1 succeeded, SDHC with block addressing for a
\* version 2 card whose OCR has bit 30 set, SDXC instead of SDHC when the
\* capacity exceeds 32 GiB; block addressing is off in every other case, and
\* every ACMD41 carried bit 30 exactly for the cards that echoed CMD8.
C33_TypeFromAnswers ==
    (last.op = "init" /\ last.ret = "OK") =>
        /\ sd.type = AnsweredType(hal.card)
        /\ sd.block_addr = AnsweredHighCapacity(hal.card)
        /\ \A i \in 1..Len(hal.log) :
              (hal.log[i].e = "cmd" /\ hal.log[i].n = SD_ACMD41) =>
                  hal.log[i].arg = (IF AnsweredV2(hal.card) THEN SD_OCR_CCS ELSE 0)

(***************************************************************************)
(* SpecCorrupt: a caller that works on BIG.BIN of a card whose FAT links   *)
(* the file's last cluster back to its first                               *)
(***************************************************************************)
MaxCorruptOps == 3

\* The FAT16 volume with BIG.BIN of 1536 bytes on clusters 2 -> 3 -> 4 -> 2.
ImgLoop16 == Image([FmtFat16 EXCEPT !.used = 3, !.loop = TRUE])

CorruptReadSizes == {4, 1000}

InitCorrupt ==
    /\ sd = CardOf(ImgLoop16)
    /\ fat = Mounted(ImgLoop16)
    /\ file = ClosedFile
    /\ last = [op |-> "mount", ret |-> "OK"]
    /\ nops = 0
    /\ caller = [script |-> <<>>, maxpos |-> 0]
    /\ hal = IdleLink

CorruptStep == Returned /\ nops < MaxCorruptOps /\ nops' = nops + 1

CorruptOpenOp ==
    /\ CorruptStep
    /\ ~file.is_open
    /\ \E mode \in OpenModes : DoOpen(PathBig, mode)

CorruptReadOp ==
    CorruptStep /\ file.is_open /\ \E size \in CorruptReadSizes : DoRead(size)

CorruptSeekOp ==
    CorruptStep /\ file.is_open /\ \E n \in SeekTargets : DoSeek(n, LIBRESD_SEEK_SET)

CorruptTruncateOp == CorruptStep /\ file.is_open /\ DoTruncate

NextCorrupt ==
    \/ CorruptOpenOp
    \/ CorruptReadOp
    \/ CorruptSeekOp
    \/ CorruptTruncateOp

SpecCorrupt == InitCorrupt /\ [][NextCorrupt]_vars

\* C34: every open, read, seek and truncate on the file with the cyclic
\* chain returns.
C34_ChainWalksReturn == last.ret # "HANG"

(***************************************************************************)
(* Properties of the handle, the chains and the free count                 *)
(***************************************************************************)
\* The handle's current cluster is the k-th of its chain and its position
\* is k clusters and the cluster offset.
CursorAt(f, chain, fl, k) ==
    /\ chain[k + 1] = fl.current_cluster
    /\ fl.position = k * f.cluster_size + fl.cluster_offset

CursorOnChain(f, chain, fl) ==
    /\ fl.cluster_offset >= 0
    /\ fl.cluster_offset <= f.cluster_size
    /\ \E k \in 0..(Len(chain) - 1) : CursorAt(f, chain, fl, k)

\* C35: for the open file, when current_cluster names a cluster it is the
\* k-th cluster of the chain from first_cluster, and position is
\* k * cluster_size + cluster_offset with cluster_offset in 0..cluster_size.
C35_CursorConsistent ==
    (file.is_open /\ file.current_cluster >= 2 /\ last.ret # "HANG") =>
        CursorOnChain(fat, ChainFrom(fat, sd, file.first_cluster, MaxWalk), file)

(***************************************************************************)
(* SpecChains: a caller that creates, writes, cuts and removes files and   *)
(* directories, one handle at a time                                       *)
(***************************************************************************)
MaxChainOps == 4

ChainImages == {ImgFat16Used, ImgFat32Used}

\* The files the caller works on: on the FAT32 volume, whose BIG.BIN has a
\* chain longer than MaxWalk, only the new file.
ChainFiles(f) ==
    IF f.fs_type = LIBRESD_FS_FAT32 THEN {PathNew} ELSE {PathBig, PathNew}

ChainModes == {LIBRESD_READ + LIBRESD_WRITE, LIBRESD_READ + LIBRESD_WRITE + LIBRESD_CREATE}

ChainSizes == {600, 1100}

InitChains ==
    /\ \E img \in ChainImages :
          /\ sd = CardOf(img)
          /\ fat = Mounted(img)
    /\ file = ClosedFile
    /\ last = [op |-> "mount", ret |-> "OK"]
    /\ nops = 0
    /\ caller = [script |-> <<>>, maxpos |-> 0, listing |-> {}]
    /\ hal = IdleLink

ChainStep == Returned /\ nops < MaxChainOps /\ nops' = nops + 1

ChainOpenOp ==
    /\ ChainStep
    /\ ~file.is_open
    /\ \E path \in ChainFiles(fat), mode \in ChainModes : DoOpen(path, mode)

ChainWriteOp == ChainStep /\ file.is_open /\ \E n \in ChainSizes : DoWrite(DataBytes(n))

ChainSeekOp == ChainStep /\ file.is_open /\ DoSeek(512, LIBRESD_SEEK_SET)

ChainTruncateOp == ChainStep /\ file.is_open /\ DoTruncate

ChainCloseOp == ChainStep /\ file.is_open /\ DoClose

ChainUnlinkOp == ChainStep /\ ~file.is_open /\ \E path \in ChainFiles(fat) : DoUnlink(path)

ChainMkdirOp == ChainStep /\ DoMkdir(PathP)

ChainRmdirOp == ChainStep /\ DoRmdir(PathP)

NextChains ==
    \/ ChainOpenOp
    \/ ChainWriteOp
    \/ ChainSeekOp
    \/ ChainTruncateOp
    \/ ChainCloseOp
    \/ ChainUnlinkOp
    \/ ChainMkdirOp
    \/ ChainRmdirOp

SpecChains == InitChains /\ [][NextChains]_vars

\* The chains of these volumes lie in the clusters 2..4*ChainFuel.
ChainFuel == 35

\* The paths of the entries the caller of SpecChains can have on the volume.
ChainPaths == {PathBig, PathNew, PathP}

\* The FAT entries of those clusters as the driver reads them in this state.
FatView(f, card) == [c \in 2..(4 * ChainFuel) |-> EntryNow(f, card, c)]

\* The clusters reached from c by following the entries of view, c first.
RECURSIVE ChainVia(_, _, _)
ChainVia(view, c, fuel) ==
    IF c \notin DOMAIN view \/ fuel = 0 THEN <<>>
    ELSE <<c>> \o ChainVia(view, view[c], fuel - 1)

\* The walk continued after a first part of `full` clusters that ran out of
\* fuel.
ChainMore(view, head, full, fuel) ==
    IF Len(head) < full THEN head
    ELSE head \o ChainVia(view, view[head[Len(head)]], fuel)

ChainWalk(view, c, fuel) ==
    ChainMore(view,
              ChainMore(view,
                        ChainMore(view, ChainVia(view, c, fuel), fuel, fuel),
                        2 * fuel, fuel),
              3 * fuel, fuel)

\* The chain of the entry r resolved to, empty when there is no entry.
EntryChainOf(r, f, card) ==
    IF r.err = "OK" /\ r.set
    THEN ChainWalk(FatView(f, card), r.info.first_cluster, ChainFuel)
    ELSE <<>>

ChainOfPath(f, card, path) == EntryChainOf(fat_resolve_path(f, card, path), f, card)

ClustersOf(chain) == {chain[i] : i \in 1..Len(chain)}

\* The entry of the chain's last cluster is an end-of-chain mark.
ChainEndsInEoc(f, card, chain) ==
    chain = <<>> \/ libresd_fat_is_eoc(f, EntryNow(f, card, chain[Len(chain)]))

\* C36: the chains of the entries on the volume end in an end-of-chain mark
\* (so none holds a cluster whose FAT entry is 0), and the chains of two
\* different entries share no cluster.
C36_ChainsAreSound ==
    Returned =>
        /\ \A p \in ChainPaths : ChainEndsInEoc(fat, sd, ChainOfPath(fat, sd, p))
        /\ \A p, q \in ChainPaths :
              p # q => ClustersOf(ChainOfPath(fat, sd, p)) \cap
                       ClustersOf(ChainOfPath(fat, sd, q)) = {}

(***************************************************************************)
(* SpecCount: a caller that asks for the free space and then allocates and *)
(* frees clusters through the file and directory calls                     *)
(***************************************************************************)
MaxCountOps == 4

\* A FAT12 volume of 345 clusters, the FAT entries of 2..340 in FAT sector 0,
\* on which BIG.BIN holds the clusters 2..339.
ImgEdge12 == Image([FmtFat12 EXCEPT !.total_sectors = 353, !.used = 338])

CountImages == {ImgTwo12, ImgEdge12}

CountModes ==
    {LIBRESD_READ + LIBRESD_WRITE + LIBRESD_CREATE,
     LIBRESD_READ + LIBRESD_WRITE + LIBRESD_CREATE + LIBRESD_TRUNCATE}

InitCount ==
    /\ \E img \in CountImages :
          /\ sd = CardOf(img)
          /\ fat = Mounted(img)
    /\ file = ClosedFile
    /\ last = [op |-> "mount", ret |-> "OK"]
    /\ nops = 0
    /\ caller = [script |-> <<>>, maxpos |-> 0, listing |-> {}]
    /\ hal = IdleLink

CountStep == Returned /\ nops < MaxCountOps /\ nops' = nops + 1

CountGetFreeReturns(r) ==
    FileReturns(r, sd, file, [op |-> "get_free", ret |-> "OK", value |-> r.bytes], caller)

CountGetFreeOp == CountStep /\ CountGetFreeReturns(libresd_fat_get_free(fat, sd, {}))

CountOpenOp ==
    /\ CountStep
    /\ ~file.is_open
    /\ \E mode \in CountModes : DoOpen(PathNew, mode)

CountWriteOp == CountStep /\ file.is_open /\ \E n \in ChainSizes : DoWrite(DataBytes(n))

CountSeekOp == CountStep /\ file.is_open /\ DoSeek(512, LIBRESD_SEEK_SET)

CountTruncateOp == CountStep /\ file.is_open /\ DoTruncate

CountCloseOp == CountStep /\ file.is_open /\ DoClose

CountUnlinkOp == CountStep /\ ~file.is_open /\ DoUnlink(PathNew)

CountMkdirOp == CountStep /\ DoMkdir(PathP)

CountRmdirOp == CountStep /\ DoRmdir(PathP)

NextCount ==
    \/ CountGetFreeOp
    \/ CountOpenOp
    \/ CountWriteOp
    \/ CountSeekOp
    \/ CountTruncateOp
    \/ CountCloseOp
    \/ CountUnlinkOp
    \/ CountMkdirOp
    \/ CountRmdirOp

SpecCount == InitCount /\ [][NextCount]_vars

\* C37: a free count that is known is the number of clusters whose FAT
\* entry, as the driver reads it in this state, is 0.
C37_FreeCountIsAccurate ==
    (Returned /\ fat.mounted /\ fat.free_clusters # FREE_UNKNOWN) =>
        fat.free_clusters = Cardinality(FreeSet(fat, sd))

\* C38: a chdir that returned OK for a path other than the root has read
\* an info record the resolver stored in that call, and a stat of "/d/."
\* that returned OK reports the first cluster and attributes of /d.
C38_ResolvedResultsDefined ==
    /\ (last.op = "chdir" /\ last.ret = "OK" /\ last.path # PathRoot) => last.filled
    /\ (last.op = "stat" /\ last.ret = "OK" /\ last.path = PathDDot) =>
          /\ last.first_cluster = fat_resolve_path(fat, sd, PathD).info.first_cluster
          /\ last.attr = fat_resolve_path(fat, sd, PathD).info.attr

(***************************************************************************)
(* SpecInert: a caller that unmounts the volume and goes on calling        *)
(***************************************************************************)
MaxInertOps == 3

InitInert ==
    /\ \E img \in TreeImages :
          /\ sd = CardOf(img)
          /\ fat = Mounted(img)
    /\ file = ClosedFile
    /\ last = [op |-> "mount", ret |-> "OK"]
    /\ nops = 0
    /\ caller = [script |-> <<>>, maxpos |-> 0, listing |-> {}]
    /\ hal = IdleLink

InertStep == Returned /\ nops < MaxInertOps /\ nops' = nops + 1

InertReturns(r, card, call) == FileReturns(r, card, file, call, caller)

InertUnmountOp ==
    /\ InertStep
    /\ fat.mounted
    /\ InertReturns(libresd_fat_unmount(fat, sd), libresd_fat_unmount(fat, sd).sd,
                    [op |-> "unmount", ret |-> "OK"])

InertMountReturns(r) == InertReturns(r, sd, [op |-> "mount", ret |-> r.err])

InertMountOp == InertStep /\ ~fat.mounted /\ InertMountReturns(libresd_fat_mount(fat, sd))

InertOpenOp ==
    /\ InertStep
    /\ ~file.is_open
    /\ \E stack \in Stacks :
          OpenReturns(OpenOnStack(fat, sd, file, PathLongName, LIBRESD_READ, stack),
                      PathLongName, LIBRESD_READ)

InertOpendirReturns(r, path) ==
    InertReturns(r, sd, [op |-> "opendir", ret |-> r.err, path |-> path])

InertOpendirOp ==
    /\ InertStep
    /\ \E path \in {PathRoot, PathD} :
          InertOpendirReturns(libresd_fat_opendir(fat, sd, path), path)

InertChdirOp ==
    /\ InertStep
    /\ \E path \in {PathRoot, PathD}, stack \in Stacks :
          ChdirReturns(libresd_fat_chdir(fat, sd, path, stack), path,
                       fat_resolve_path(fat, sd, path).set)

InertStatOp ==
    /\ InertStep
    /\ \E stack \in Stacks : StatReturns(libresd_fat_stat(fat, sd, PathD, stack), PathD)

InertExistsOp ==
    /\ InertStep
    /\ \E path \in {PathD, PathNone} :
          InertReturns([fat |-> fat], sd,
                       [op |-> "exists", path |-> path,
                        ret |-> IF libresd_fat_exists(fat, sd, path) THEN "TRUE"
                                ELSE "FALSE"])

InertMkdirOp == InertStep /\ DoMkdir(PathP)

InertRmdirOp == InertStep /\ DoRmdir(PathDE)

InertUnlinkOp == InertStep /\ DoUnlink(PathLongName)

InertRenameOp ==
    /\ InertStep
    /\ RenameReturns(libresd_fat_rename(fat, sd, PathLongName, PathNew),
                     PathLongName, PathNew)

NextInert ==
    \/ InertUnmountOp
    \/ InertMountOp
    \/ InertOpenOp
    \/ InertOpendirOp
    \/ InertChdirOp
    \/ InertStatOp
    \/ InertExistsOp
    \/ InertMkdirOp
    \/ InertRmdirOp
    \/ InertUnlinkOp
    \/ InertRenameOp

SpecInert == InitInert /\ [][NextInert]_vars

\* The calls that take a path.
PathCalls ==
    {"open", "opendir", "chdir", "stat", "exists", "mkdir", "rmdir", "unlink", "rename"}

\* C39: a call that takes a path, made while the volume is not mounted,
\* reports NOT_MOUNTED (exists: false) and leaves the volume structure and
\* the card as they were.
C39_UnmountedIsInert ==
    [][(~fat.mounted /\ last'.op \in PathCalls) =>
          /\ last'.ret = (IF last'.op = "exists" THEN "FALSE" ELSE "NOT_MOUNTED")
          /\ fat' = fat
          /\ sd' = sd]_vars

(***************************************************************************)
(* SpecHandle: a caller that uses its one handle whether it is open or not *)
(***************************************************************************)
MaxHandleOps == 3

HandleModes == {LIBRESD_READ, LIBRESD_READ + LIBRESD_WRITE}

HandleStep == Returned /\ nops < MaxHandleOps /\ nops' = nops + 1

HandleOpenOp ==
    /\ HandleStep
    /\ \E path \in {PathBig, PathNone}, mode \in HandleModes : DoOpen(path, mode)

HandleCloseOp == HandleStep /\ DoClose

HandleReadOp == HandleStep /\ DoRead(4)

HandleWriteOp == HandleStep /\ DoWrite(DataBytes(5))

HandleSeekOp == HandleStep /\ DoSeek(512, LIBRESD_SEEK_SET)

HandleFlushOp == HandleStep /\ DoFlush

HandleTruncateOp == HandleStep /\ DoTruncate

HandleUnmountOp ==
    /\ HandleStep
    /\ fat.mounted
    /\ InertReturns(libresd_fat_unmount(fat, sd), libresd_fat_unmount(fat, sd).sd,
                    [op |-> "unmount", ret |-> "OK"])

NextHandle ==
    \/ HandleOpenOp
    \/ HandleCloseOp
    \/ HandleReadOp
    \/ HandleWriteOp
    \/ HandleSeekOp
    \/ HandleFlushOp
    \/ HandleTruncateOp
    \/ HandleUnmountOp

SpecHandle == Init /\ [][NextHandle]_vars

\* The calls that take a handle that has been opened.
HandleCalls == {"read", "write", "seek", "flush", "truncate", "close"}

\* C40: after an open that failed the handle is not open; read, write,
\* seek, flush, truncate and close on a handle that is not open return
\* INVALID_HANDLE and leave handle, volume and card as they were.
C40_HandleLifecycle ==
    [][ /\ (last'.op = "open" /\ last'.ret # "OK") => ~file'.is_open
        /\ (~file.is_open /\ last'.op \in HandleCalls) =>
              /\ last'.ret = "INVALID_HANDLE"
              /\ file' = file
              /\ fat' = fat
              /\ sd' = sd ]_vars
====
